---- MODULE Spec2Model ----
(***************************************************************************)
(* State-machine model of fastapi_pulse's active prober                    *)
(* (src/src/fastapi_pulse/probe.py, class PulseProbeManager).              *)
(*                                                                         *)
(* The manager runs on one asyncio event loop, so a coroutine only loses   *)
(* control at an await.  Each action below is the code between two         *)
(* suspension points of one coroutine:                                     *)
(*   start_probe            (synchronous, called by the router)            *)
(*   _run_job               start .. await gather / gather done .. end     *)
(*   _probe_endpoint        semaphore acquired .. await client.request /   *)
(*                          request returned or raised .. end              *)
(*   wait_for_completion    call .. await job._future / resumed .. return  *)
(***************************************************************************)
EXTENDS Integers, Sequences, FiniteSets, TLC

\* ------------------------------------------------------------------------
\* Bounds of the model
\* ------------------------------------------------------------------------
MaxJobs == 2
MaxProbes == 2
MaxConcurrency == 2
NumWaiters == 1
MaxChanges == 2
NumCallers == 2
WindowCapacity == 2
MaxRecords == 4
WarmLen == 19
MaxRequests == 2

\* ------------------------------------------------------------------------
\* Program constants
\* ------------------------------------------------------------------------
LatencyWarnMs == 1000
ErrorTextLimit == 500
ProbeFailureStatus == 599
SuccessLow == 200
SuccessHigh == 400

\* Optional[T]: None is the empty tuple, a value v is <<v>>.
None == <<>>
Some(v) == <<v>>

\* time.time() read by the code; the clock's value is abstracted to a token.
Stamp == Some("time")

\* Variant: the configured value is taken as it is.
MaxUnclamped(a, b) == b

\* max(1, concurrency)
Max(a, b) == IF a >= b THEN a ELSE b

Range(s) == {s[i] : i \in DOMAIN s}

\* ------------------------------------------------------------------------
\* EndpointInfo descriptors handed to start_probe (registry.py EndpointInfo).
\* The id is "METHOD path"; requires_input is a field of the descriptor.
\* ------------------------------------------------------------------------
EndpointInfo ==
    [id \in {"GET /items", "GET /items/{id}"} |->
        IF id = "GET /items"
        THEN [id |-> id, method |-> "GET", path |-> "/items",
              requires_input |-> FALSE]
        ELSE [id |-> id, method |-> "GET", path |-> "/items/{id}",
              requires_input |-> TRUE]]

EndpointIds == DOMAIN EndpointInfo

\* The endpoints argument of start_probe: any list of descriptors, the same
\* descriptor possibly more than once (trigger_probe maps the caller's id
\* list one to one onto descriptors).  MaxProbes bounds the targets of all
\* jobs of a run together.
TargetLists ==
    UNION {[1..n -> EndpointIds] : n \in 0..MaxProbes}

\* ------------------------------------------------------------------------
\* What a synthetic call can come back with: a response (status code,
\* measured duration, length of the body text) or an exception raised by
\* client.request (a timeout or another transport error, with the length of
\* str(exc)).
\* ------------------------------------------------------------------------
Response(code, ms, len) ==
    [kind |-> "response", status_code |-> code, duration_ms |-> ms,
     text_len |-> len]

Raised(kind, ms, len) ==
    [kind |-> kind, status_code |-> 0, duration_ms |-> ms, text_len |-> len]

\* One outcome per branch of the handler: healthy, warning, critical response,
\* exception.
ProbeOutcomes ==
    { Response(200, 1000, 2),
      Response(200, 1001, 2),
      Response(404, 1000, 501),
      Raised("timeout", 10000, 600) }

\* ------------------------------------------------------------------------
\* State
\* ------------------------------------------------------------------------
VARIABLES
    concurrency,     \* the concurrency argument of PulseProbeManager(...)
    semaphore,       \* self.semaphore: free slots
    jobs,            \* self._jobs: job_id -> ProbeJob
    last_job_id,     \* self._last_job_id (None before the first start)
    run_job,         \* per job: the _run_job task (position, endpoints)
    probe_task,      \* per job: position of each _probe_endpoint coroutine
    client_requests, \* per job and target: calls of client.request
    metrics_calls,   \* per job and target: calls of metrics.record_request
    waiters,         \* callers of wait_for_completion
    schema,          \* what app.openapi() returns at this moment
    exclude_prefixes,\* registry._exclude_prefixes
    reg_endpoints,   \* registry._endpoints
    schema_hash,     \* registry._schema_hash (None before the first refresh)
    derivations,     \* how often refresh ran past its hash gate
    changes,         \* how often the application's description was changed
    returned,        \* the last call of the registry and what it returned
    callers,         \* threads inside registry.list_endpoints()
    metrics,         \* the metrics aggregator: key -> statistics
    recorded,        \* the calls of the aggregator's record_request so far
    requests,        \* HTTP requests on their way through the middleware
    response         \* what the last handler or helper call handed back

\* the probe manager and its callers
pvars ==
    <<concurrency, semaphore, jobs, last_job_id, run_job, probe_task,
      client_requests, metrics_calls, waiters>>

\* the application's description and the endpoint registry
rvars ==
    <<schema, exclude_prefixes, reg_endpoints, schema_hash, derivations,
      changes, returned, callers>>

\* the metrics aggregator, the middleware in front of the application and
\* the handlers of the routers
mvars == <<metrics, recorded, requests, response>>

vars ==
    <<concurrency, semaphore, jobs, last_job_id, run_job, probe_task,
      client_requests, metrics_calls, waiters, schema, exclude_prefixes,
      reg_endpoints, schema_hash, derivations, changes, returned, callers,
      metrics, recorded, requests, response>>

JobIds == DOMAIN jobs

\* targets handed to start_probe so far, over all jobs
TotalTargets ==
    LET RECURSIVE Sum(_)
        Sum(n) == IF n = 0 THEN 0 ELSE jobs[n].total_targets + Sum(n - 1)
    IN Sum(Cardinality(JobIds))

\* ------------------------------------------------------------------------
\* ProbeResult and ProbeJob
\* ------------------------------------------------------------------------
\* Variant: targets that need input are marked skipped at start already.
QueuedResultPreSkipped(e) ==
    [endpoint_id |-> EndpointInfo[e].id,
     method |-> EndpointInfo[e].method,
     path |-> EndpointInfo[e].path,
     status |-> IF EndpointInfo[e].requires_input THEN "skipped" ELSE "queued",
     status_code |-> None,
     latency_ms |-> None,
     error |-> None,
     checked_at |-> None]

\* ProbeResult(endpoint_id, method, path, status="queued") of start_probe.
QueuedResult(e) ==
    [endpoint_id |-> EndpointInfo[e].id,
     method |-> EndpointInfo[e].method,
     path |-> EndpointInfo[e].path,
     status |-> "queued",
     status_code |-> None,
     latency_ms |-> None,
     error |-> None,
     checked_at |-> None]

\* ProbeJob(job_id=...) with the fields start_probe fills in.
NewJob(id, endpoints) ==
    [job_id |-> id,
     status |-> "queued",
     total_targets |-> Len(endpoints),
     completed |-> 0,
     started_at |-> None,
     completed_at |-> None,
     results |-> [e \in Range(endpoints) |-> QueuedResult(e)],
     future |-> "pending"]

\* uuid.uuid4().hex: an identifier no earlier job has.
NewJobId == Cardinality(JobIds) + 1

\* ------------------------------------------------------------------------
\* Pure pieces of _probe_endpoint
\* ------------------------------------------------------------------------
\* is_success = 200 <= response.status_code < 400
IsSuccess(code) == SuccessLow <= code /\ code < SuccessHigh

\* Variant: the latency threshold is exclusive.
ClassifyStrict(code, ms) ==
    IF IsSuccess(code) /\ ms < LatencyWarnMs THEN "healthy"
    ELSE IF IsSuccess(code) THEN "warning"
    ELSE "critical"

\* the if / elif / else that sets result.status for a response
Classify(code, ms) ==
    IF IsSuccess(code) /\ ms <= LatencyWarnMs THEN "healthy"
    ELSE IF IsSuccess(code) THEN "warning"
    ELSE "critical"

\* len(text[:500])
Truncate(len) == IF len <= ErrorTextLimit THEN len ELSE ErrorTextLimit

\* Variant: the requires_input test is missing.
ShouldSkipNever(e) == FALSE

\* if endpoint.requires_input
ShouldSkip(e) == EndpointInfo[e].requires_input

\* Variant: the skip branch forgets to set the status.
SkipResultUnmarked(r) == [r EXCEPT !.checked_at = Stamp]

\* the skip branch: result.status = "skipped"; result.checked_at = time.time()
SkipResult(r) == [r EXCEPT !.status = "skipped", !.checked_at = Stamp]

\* Variant: the except clause does not catch a timeout, the result is left
\* as it was.
ApplyOutcomeTimeoutUncaught(r, o) ==
    IF o.kind = "response"
    THEN [r EXCEPT
            !.status_code = Some(o.status_code),
            !.latency_ms = Some(o.duration_ms),
            !.checked_at = Stamp,
            !.status = Classify(o.status_code, o.duration_ms),
            !.error = IF Classify(o.status_code, o.duration_ms) = "critical"
                      THEN Some(Truncate(o.text_len))
                      ELSE @]
    ELSE IF o.kind = "timeout" THEN r
    ELSE [r EXCEPT
            !.status = "critical",
            !.error = Some(o.text_len),
            !.status_code = None,
            !.latency_ms = Some(o.duration_ms),
            !.checked_at = Stamp]

\* the try body after the response arrived, and the except branch
ApplyOutcome(r, o) ==
    IF o.kind = "response"
    THEN [r EXCEPT
            !.status_code = Some(o.status_code),
            !.latency_ms = Some(o.duration_ms),
            !.checked_at = Stamp,
            !.status = Classify(o.status_code, o.duration_ms),
            !.error = IF Classify(o.status_code, o.duration_ms) = "critical"
                      THEN Some(Truncate(o.text_len))
                      ELSE @]
    ELSE [r EXCEPT
            !.status = "critical",
            !.error = Some(o.text_len),
            !.status_code = None,
            !.latency_ms = Some(o.duration_ms),
            !.checked_at = Stamp]

\* Variant: the call is made without the correlation id.
RecordCallUntagged(e, o) ==
    [endpoint |-> EndpointInfo[e].path,
     method |-> EndpointInfo[e].method,
     status_code |-> IF o.kind = "response" THEN o.status_code
                     ELSE ProbeFailureStatus,
     duration_ms |-> o.duration_ms,
     correlation_id |-> ""]

\* the metrics.record_request call of either branch
RecordCall(e, o) ==
    [endpoint |-> EndpointInfo[e].path,
     method |-> EndpointInfo[e].method,
     status_code |-> IF o.kind = "response" THEN o.status_code
                     ELSE ProbeFailureStatus,
     duration_ms |-> o.duration_ms,
     correlation_id |-> "pulse-probe"]

\* Variant: a target is counted twice (once in the branch, once in finally).
IncCompletedTwice(n) == n + 2

\* job.completed += 1
IncCompleted(n) == n + 1

\* Variants: the slot test is off by one; the slot is never given back.
CanAcquireOffByOne(s) == s >= 0
ReleaseLost(s) == s

\* asyncio.Semaphore: acquire needs a free slot and takes it, release gives
\* it back.
CanAcquire(s) == s > 0
Acquire(s) == s - 1
Release(s) == s + 1

\* ------------------------------------------------------------------------
\* The application's OpenAPI description (registry.py reads schema["paths"])
\* ------------------------------------------------------------------------
\* A path is the sequence of its pieces, so that str.startswith is the
\* prefix relation on sequences and f'/{prefix}' puts one piece in front.
ItemsPath == <<"/", "items">>
ItemPath == <<"/", "items", "/", "{id}">>
PulsePath == <<"/", "health", "/", "pulse", "/", "probe">>
DashboardPath == <<"/", "dashboard", "/", "app">>

\* the paths above in the order of Python's str comparison
PathOrder == <<DashboardPath, PulsePath, ItemsPath, ItemPath>>
Paths == Range(PathOrder)

\* the HTTP methods in the order of Python's str comparison
MethodOrder ==
    <<"DELETE", "GET", "HEAD", "OPTIONS", "PATCH", "POST", "PUT", "TRACE">>

\* parameters of an operation
PathParam == [name |-> "id", in |-> "path", required |-> TRUE]
OptionalPathParam == [name |-> "id", in |-> "path"]
QueryParam == [name |-> "q", in |-> "query", required |-> TRUE]

\* operations
OpList == [summary |-> "List", tags |-> <<"items">>]
OpListAll == [summary |-> "List all", tags |-> <<"items">>]
OpCreate == [summary |-> "Create", requestBody |-> [content |-> "json"]]
OpRead == [operationId |-> "read_item", parameters |-> <<QueryParam>>]
OpLoose ==
    [summary |-> "", operationId |-> "peek",
     parameters |-> <<OptionalPathParam>>, requestBody |-> <<>>]

\* what a path of the description may hold: a dict of method -> operation,
\* with the shared parameter list under the key "parameters"
PathItemChoices ==
    { [get |-> OpList],
      [get |-> OpListAll],
      [get |-> OpList, post |-> OpCreate, put |-> OpLoose],
      [parameters |-> <<PathParam>>, get |-> OpRead, trace |-> OpList] }

Titles == {"app", "app v2"}

\* the description of the application when the registry is constructed
BaseSchema ==
    [title |-> "app",
     paths |-> [p \in Paths |->
        CASE p = ItemsPath ->
                [get |-> OpList, post |-> OpCreate, put |-> OpLoose]
          [] p = ItemPath ->
                [parameters |-> <<PathParam>>, get |-> OpRead,
                 trace |-> OpList]
          [] OTHER -> [get |-> OpList]]]

\* ------------------------------------------------------------------------
\* PulseEndpointRegistry: pure parts
\* ------------------------------------------------------------------------
ALLOWED_METHODS ==
    {"GET", "POST", "PUT", "PATCH", "DELETE", "OPTIONS", "HEAD"}

DEFAULT_MANAGEMENT_PREFIXES == {<<"/", "health", "/", "pulse">>}

\* the exclude_prefixes argument of the constructor (None is the empty one)
PrefixArgs == {{}, {<<"/", "dashboard">>}, {<<"dashboard">>}}

\* str.startswith
StartsWith(s, prefix) ==
    Len(prefix) <= Len(s) /\ SubSeq(s, 1, Len(prefix)) = prefix

\* prefix if prefix.startswith('/') else f'/{prefix}'
NormalizePrefix(prefix) ==
    IF StartsWith(prefix, <<"/">>) THEN prefix ELSE <<"/">> \o prefix

\* Variant: the caller's prefixes replace the built-in one.
ExcludePrefixesOverriding(arg) ==
    IF arg = {}
    THEN DEFAULT_MANAGEMENT_PREFIXES
    ELSE {NormalizePrefix(prefix) : prefix \in arg}

\* __init__: the built-in prefixes plus the caller's, normalized
ExcludePrefixes(arg) ==
    DEFAULT_MANAGEMENT_PREFIXES \cup {NormalizePrefix(prefix) : prefix \in arg}

\* str.upper and str.lower on the keys of a path's dict
Upper(key) ==
    CASE key = "get" -> "GET"
      [] key = "post" -> "POST"
      [] key = "put" -> "PUT"
      [] key = "trace" -> "TRACE"
      [] key = "parameters" -> "PARAMETERS"
      [] key = "GET" -> "GET"
Lower(key) == IF key = "GET" THEN "get" ELSE key

\* A node of the description that is not a JSON object (a string, a number,
\* a list) is written Scalar(text); isinstance(x, dict) tells the two apart.
Scalar(text) == [scalar |-> text]
IsDict(x) == "scalar" \notin DOMAIN x

\* d.get(k, default) and d.get(k) as an Optional
Get(d, k, default) == IF k \in DOMAIN d THEN d[k] ELSE default
Opt(d, k) == IF k \in DOMAIN d THEN Some(d[k]) ELSE None

\* a or b on Optional[str]: None and "" are falsy
Or(a, b) == IF a # None /\ a # Some("") THEN a ELSE b

\* Variant: the digest covers the shape of the description (paths and
\* the keys under them), not the operations' content.
HashShapeOnly(paths) == {<<p, DOMAIN paths[p]>> : p \in DOMAIN paths}

\* sha256 of json.dumps(paths, sort_keys=True): a digest of the canonical
\* text, which is the same for two dicts exactly when they hold the same
\* keys and values whatever their order; sha256 is taken as collision-free.
Hash(paths) == {<<p, paths[p]>> : p \in DOMAIN paths}

\* any(param.get("in") == "path" and param.get("required", False) ...)
\* variant: any path parameter counts, required or not
HasPathParamsOptional(parameters) ==
    \E n \in DOMAIN parameters :
        Opt(parameters[n], "in") = Some("path")

HasPathParams(parameters) ==
    \E n \in DOMAIN parameters :
        /\ Opt(parameters[n], "in") = Some("path")
        /\ Get(parameters[n], "required", FALSE)

\* bool(operation.get("requestBody")): a missing or empty body is falsy
HasRequestBody(operation) == Get(operation, "requestBody", <<>>) # <<>>

\* the EndpointInfo built for one operation of one path
\* variant: a request body alone does not make the endpoint require input
MakeEndpointPathOnly(path, operations, key) ==
    LET operation == operations[key]
        parameters == Get(operations, "parameters", <<>>)
                        \o Get(operation, "parameters", <<>>)
    IN  [id |-> <<Upper(key), path>>,
         method |-> Upper(key),
         path |-> path,
         summary |-> Or(Opt(operation, "summary"),
                        Opt(operation, "operationId")),
         tags |-> Get(operation, "tags", <<>>),
         requires_input |-> HasPathParams(parameters),
         has_path_params |-> HasPathParams(parameters),
         has_request_body |-> HasRequestBody(operation)]

MakeEndpoint(path, operations, key) ==
    LET operation == operations[key]
        parameters == Get(operations, "parameters", <<>>)
                        \o Get(operation, "parameters", <<>>)
    IN  [id |-> <<Upper(key), path>>,
         method |-> Upper(key),
         path |-> path,
         summary |-> Or(Opt(operation, "summary"),
                        Opt(operation, "operationId")),
         tags |-> Get(operation, "tags", <<>>),
         requires_input |->
            HasPathParams(parameters) \/ HasRequestBody(operation),
         has_path_params |-> HasPathParams(parameters),
         has_request_body |-> HasRequestBody(operation)]

Rank(order, x) == CHOOSE n \in DOMAIN order : order[n] = x

\* the sort key (e.path, e.method)
SortsBefore(a, b) ==
    \/ Rank(PathOrder, a.path) < Rank(PathOrder, b.path)
    \/ /\ a.path = b.path
       /\ Rank(MethodOrder, a.method) < Rank(MethodOrder, b.method)

RECURSIVE SortEndpoints(_)
SortEndpoints(found) ==
    IF found = {}
    THEN <<>>
    ELSE LET first == CHOOSE a \in found :
                        \A b \in found \ {a} : SortsBefore(a, b)
         IN  <<first>> \o SortEndpoints(found \ {first})

\* Lines 60-101 of refresh: the list derived from paths.  A path under an
\* excluded prefix is skipped, so is the "parameters" key and a method that
\* is not allowed.
Derive(paths, prefixes) ==
    LET included ==
            {p \in DOMAIN paths :
                ~ \E prefix \in prefixes : StartsWith(p, prefix)}
        Methods(p) ==
            {key \in DOMAIN paths[p] :
                /\ IsDict(paths[p])
                /\ Lower(key) # "parameters"
                /\ Upper(key) \in ALLOWED_METHODS
                /\ IsDict(paths[p][key])}
    IN  SortEndpoints(UNION {{MakeEndpoint(p, paths[p], key) :
                                    key \in Methods(p)} : p \in included})

\* any(param.get("in") == "path" and param.get("required", False) ...) on a
\* list that holds a parameter without .get: any() stops at the first
\* parameter that is a required path parameter, and raises AttributeError
\* when it comes to the malformed one before that.
ParamsRaise(parameters) ==
    \E n \in DOMAIN parameters :
        /\ ~IsDict(parameters[n])
        /\ \A k \in 1..(n - 1) :
            ~ (/\ Opt(parameters[k], "in") = Some("path")
               /\ Get(parameters[k], "required", FALSE))

\* Lines 60-99 raise: some operation that is visited has such a list.
DeriveRaises(paths, prefixes) ==
    \E p \in DOMAIN paths :
        /\ ~ \E prefix \in prefixes : StartsWith(p, prefix)
        /\ IsDict(paths[p])
        /\ \E key \in DOMAIN paths[p] :
            /\ Lower(key) # "parameters"
            /\ Upper(key) \in ALLOWED_METHODS
            /\ IsDict(paths[p][key])
            /\ ParamsRaise(Get(paths[p], "parameters", <<>>)
                            \o Get(paths[p][key], "parameters", <<>>))

\* ------------------------------------------------------------------------
\* The same derivation step by step, in the order in which the dicts of the
\* description hold their keys: path_order is the order of paths.items(),
\* key_order the order in which every path's dict holds the keys it has.
\* ------------------------------------------------------------------------
\* the keys a path's dict may hold, in three of their orders
KeyOrders ==
    { <<"parameters", "get", "GET", "post", "put", "trace">>,
      <<"trace", "put", "post", "GET", "get", "parameters">>,
      <<"post", "GET", "parameters", "get", "trace", "put">> }

\* all orders of a set of paths
PathOrders(S) ==
    {order \in [1..Cardinality(S) -> S] :
        \A i, j \in DOMAIN order : order[i] = order[j] => i = j}

\* lines 65-99 for one path: the endpoints of its operations, in key order
PathEndpoints(path, operations, key_order) ==
    LET Taken(key) ==
            /\ key \in DOMAIN operations
            /\ Lower(key) # "parameters"
            /\ Upper(key) \in ALLOWED_METHODS
            /\ IsDict(operations[key])
        keys == SelectSeq(key_order, Taken)
    IN  IF IsDict(operations)
        THEN [n \in 1..Len(keys) |-> MakeEndpoint(path, operations, keys[n])]
        ELSE <<>>

\* lines 60-99: the list before it is sorted
RECURSIVE Collect(_, _, _, _)
Collect(paths, prefixes, path_order, key_order) ==
    IF path_order = <<>>
    THEN <<>>
    ELSE LET path == Head(path_order)
             rest == Collect(paths, prefixes, Tail(path_order), key_order)
         IN  IF \E prefix \in prefixes : StartsWith(path, prefix)
             THEN rest
             ELSE PathEndpoints(path, paths[path], key_order) \o rest

\* e is put behind every element that does not sort after it
Insert(sorted, e) ==
    LET behind == {n \in DOMAIN sorted : SortsBefore(e, sorted[n])}
        at == IF behind = {} THEN Len(sorted) + 1
              ELSE CHOOSE n \in behind : \A k \in behind : n <= k
    IN  SubSeq(sorted, 1, at - 1) \o <<e>> \o SubSeq(sorted, at, Len(sorted))

\* Variant: the list is left in the order of collection.
StableSortSkipped(list) == list

\* list.sort(key=lambda e: (e.path, e.method)): a stable sort
RECURSIVE StableSort(_)
StableSort(list) ==
    IF list = <<>>
    THEN <<>>
    ELSE Insert(StableSort(SubSeq(list, 1, Len(list) - 1)), list[Len(list)])

\* ------------------------------------------------------------------------
\* Nothing recorded, no request under way, no handler called yet
\* ------------------------------------------------------------------------
MonitorInit ==
    /\ metrics = <<>>
    /\ recorded = <<>>
    /\ requests = <<>>
    /\ response = None

\* a thread that is not inside list_endpoints()
IdleCaller == [pc |-> "idle", paths |-> None, endpoints |-> None,
               result |-> None]

\* ------------------------------------------------------------------------
\* PulseEndpointRegistry(app, exclude_prefixes=arg) just constructed
\* ------------------------------------------------------------------------
RegistryInit(arg) ==
    /\ schema = BaseSchema
    /\ exclude_prefixes = ExcludePrefixes(arg)
    /\ reg_endpoints = <<>>
    /\ schema_hash = None
    /\ derivations = 0
    /\ changes = 0
    /\ returned = [call |-> "none", derived |-> FALSE, raised |-> FALSE,
                  value |-> None]
    /\ callers = [t \in 1..NumCallers |-> IdleCaller]

\* ------------------------------------------------------------------------
\* Init: a freshly constructed manager
\* ------------------------------------------------------------------------
Init ==
    /\ concurrency \in 0..MaxConcurrency
    /\ semaphore = Max(1, concurrency)
    /\ jobs = <<>>
    /\ last_job_id = None
    /\ run_job = <<>>
    /\ probe_task = <<>>
    /\ client_requests = <<>>
    /\ metrics_calls = <<>>
    /\ waiters = [w \in 1..NumWaiters |-> [pc |-> "idle", job |-> None]]
    /\ RegistryInit({})
    /\ MonitorInit

\* ------------------------------------------------------------------------
\* start_probe(endpoints)
\* ------------------------------------------------------------------------
\* d[k] = v on a dict
Put(d, k, v) == [x \in DOMAIN d \cup {k} |-> IF x = k THEN v ELSE d[x]]

\* Variant: starting a job supersedes the jobs still in progress.
StartProbeSuperseding(endpoints) ==
    /\ Cardinality(JobIds) < MaxJobs
    /\ TotalTargets + Len(endpoints) <= MaxProbes
    /\ LET job_id == NewJobId IN
        /\ jobs' = Put([j \in JobIds |->
                            [jobs[j] EXCEPT !.status = "completed"]],
                       job_id, NewJob(job_id, endpoints))
        /\ last_job_id' = Some(job_id)
        /\ run_job' = Put([j \in JobIds |-> [run_job[j] EXCEPT !.pc = "done"]],
                          job_id,
                          [pc |-> "scheduled", endpoints |-> endpoints])
        /\ probe_task' = Put(probe_task, job_id, <<>>)
        /\ client_requests' = Put(client_requests, job_id, <<>>)
        /\ metrics_calls' = Put(metrics_calls, job_id, <<>>)
    /\ UNCHANGED rvars
    /\ UNCHANGED mvars
    /\ UNCHANGED <<concurrency, semaphore, waiters>>

\* start_probe as its caller's step sees it: what it does to the manager
StartProbeCall(endpoints) ==
    /\ Cardinality(JobIds) < MaxJobs
    /\ TotalTargets + Len(endpoints) <= MaxProbes
    /\ LET job_id == NewJobId IN
        /\ jobs' = Put(jobs, job_id, NewJob(job_id, endpoints))
        /\ last_job_id' = Some(job_id)
        \* loop.create_task(self._run_job(job, endpoints)): scheduled, not run
        /\ run_job' = Put(run_job, job_id,
                          [pc |-> "scheduled", endpoints |-> endpoints])
        /\ probe_task' = Put(probe_task, job_id, <<>>)
        /\ client_requests' = Put(client_requests, job_id, <<>>)
        /\ metrics_calls' = Put(metrics_calls, job_id, <<>>)
    /\ UNCHANGED <<concurrency, semaphore, waiters>>

StartProbe(endpoints) ==
    /\ StartProbeCall(endpoints)
    /\ UNCHANGED rvars
    /\ UNCHANGED mvars

\* ------------------------------------------------------------------------
\* _run_job(job, endpoints)
\* ------------------------------------------------------------------------
\* First run of the task: status, started_at, one _probe_endpoint coroutine
\* per element of endpoints handed to asyncio.gather.
RunJobStart(j) ==
    /\ j \in JobIds
    /\ run_job[j].pc = "scheduled"
    /\ jobs' = [jobs EXCEPT ![j].status = "running", ![j].started_at = Stamp]
    /\ run_job' = [run_job EXCEPT ![j].pc = "gathering"]
    /\ probe_task' = [probe_task EXCEPT
            ![j] = [i \in 1..Len(run_job[j].endpoints) |-> "pending"]]
    /\ client_requests' = [client_requests EXCEPT
            ![j] = [i \in 1..Len(run_job[j].endpoints) |-> 0]]
    /\ metrics_calls' = [metrics_calls EXCEPT
            ![j] = [i \in 1..Len(run_job[j].endpoints) |-> <<>>]]
    /\ UNCHANGED rvars
    /\ UNCHANGED mvars
    /\ UNCHANGED <<concurrency, semaphore, last_job_id, waiters>>

\* Variant: the probe coroutines are not awaited.
\* variant: gather returns only after a first task has finished
GatherDoneNonEmpty(j) ==
    /\ probe_task[j] # <<>>
    /\ \A i \in DOMAIN probe_task[j] : probe_task[j][i] = "done"

GatherNotAwaited(j) == TRUE

\* await asyncio.gather(*tasks, return_exceptions=True) returns once every
\* task has finished, normally or not.
GatherDone(j) == \A i \in DOMAIN probe_task[j] : probe_task[j][i] = "done"

\* Variant: a job with a critical result ends as failed.
FinalStatusFailed(job) ==
    IF \E e \in DOMAIN job.results : job.results[e].status = "critical"
    THEN "failed"
    ELSE "completed"

\* job.status = "completed" after the gather
FinalStatus(job) == "completed"

RunJobFinish(j) ==
    /\ j \in JobIds
    /\ run_job[j].pc = "gathering"
    /\ GatherDone(j)
    /\ jobs' = [jobs EXCEPT
            ![j].status = FinalStatus(jobs[j]),
            ![j].completed_at = Stamp,
            \* if job._future and not job._future.done(): set_result(job)
            ![j].future = "done"]
    /\ run_job' = [run_job EXCEPT ![j].pc = "done"]
    /\ UNCHANGED rvars
    /\ UNCHANGED mvars
    /\ UNCHANGED <<concurrency, semaphore, last_job_id, probe_task,
                   client_requests, metrics_calls, waiters>>

\* ------------------------------------------------------------------------
\* _probe_endpoint(job, client, endpoint)
\* ------------------------------------------------------------------------
Target(j, i) == run_job[j].endpoints[i]

\* requires_input: acquire, mark skipped, count, return (release), with no
\* await in between.
ProbeSkip(j, i) ==
    /\ j \in JobIds
    /\ i \in DOMAIN probe_task[j]
    /\ probe_task[j][i] = "pending"
    /\ CanAcquire(semaphore)
    /\ ShouldSkip(Target(j, i))
    /\ jobs' = [jobs EXCEPT
            ![j].results[Target(j, i)] = SkipResult(@),
            ![j].completed = IncCompleted(@)]
    /\ probe_task' = [probe_task EXCEPT ![j][i] = "done"]
    /\ semaphore' = Release(Acquire(semaphore))
    /\ UNCHANGED rvars
    /\ UNCHANGED mvars
    /\ UNCHANGED <<concurrency, last_job_id, run_job, client_requests,
                   metrics_calls, waiters>>

\* otherwise: acquire and suspend in await client.request(...)
ProbeRequest(j, i) ==
    /\ j \in JobIds
    /\ i \in DOMAIN probe_task[j]
    /\ probe_task[j][i] = "pending"
    /\ CanAcquire(semaphore)
    /\ ~ShouldSkip(Target(j, i))
    /\ semaphore' = Acquire(semaphore)
    /\ probe_task' = [probe_task EXCEPT ![j][i] = "inflight"]
    /\ client_requests' = [client_requests EXCEPT ![j][i] = @ + 1]
    /\ UNCHANGED rvars
    /\ UNCHANGED mvars
    /\ UNCHANGED <<concurrency, jobs, last_job_id, run_job, metrics_calls,
                   waiters>>

\* the request returned a response or raised: classify, record, count
\* (finally), release the semaphore.
ProbeReturn(j, i, o) ==
    /\ j \in JobIds
    /\ i \in DOMAIN probe_task[j]
    /\ probe_task[j][i] = "inflight"
    /\ jobs' = [jobs EXCEPT
            ![j].results[Target(j, i)] = ApplyOutcome(@, o),
            ![j].completed = IncCompleted(@)]
    /\ metrics_calls' = [metrics_calls EXCEPT
            ![j][i] = Append(@, RecordCall(Target(j, i), o))]
    /\ probe_task' = [probe_task EXCEPT ![j][i] = "done"]
    /\ semaphore' = Release(semaphore)
    /\ UNCHANGED rvars
    /\ UNCHANGED mvars
    /\ UNCHANGED <<concurrency, last_job_id, run_job, client_requests, waiters>>

\* ------------------------------------------------------------------------
\* wait_for_completion(job_id)
\* ------------------------------------------------------------------------
\* Variant: the job is returned without awaiting its future.
WaitCallNoAwait(w, id) ==
    /\ waiters[w].pc = "idle"
    /\ waiters' = [waiters EXCEPT
            ![w] = IF id \notin JobIds
                   THEN [pc |-> "KeyError", job |-> None]
                   ELSE [pc |-> "returned", job |-> Some(id)]]
    /\ UNCHANGED rvars
    /\ UNCHANGED mvars
    /\ UNCHANGED <<concurrency, semaphore, jobs, last_job_id, run_job,
                   probe_task, client_requests, metrics_calls>>

\* The call: KeyError for an unknown id; a finished future is awaited without
\* suspending; otherwise the caller is parked on job._future.
WaitCall(w, id) ==
    /\ waiters[w].pc = "idle"
    /\ waiters' = [waiters EXCEPT
            \* job = self._jobs.get(job_id)
            ![w] = IF id \notin JobIds
                   THEN [pc |-> "KeyError", job |-> None]
                   ELSE IF jobs[id].future = "done"
                   THEN [pc |-> "returned", job |-> Some(id)]
                   ELSE [pc |-> "awaiting", job |-> Some(id)]]
    /\ UNCHANGED rvars
    /\ UNCHANGED mvars
    /\ UNCHANGED <<concurrency, semaphore, jobs, last_job_id, run_job,
                   probe_task, client_requests, metrics_calls>>

\* the future was resolved: the parked caller resumes and returns the job
WaitResume(w) ==
    /\ waiters[w].pc = "awaiting"
    /\ jobs[waiters[w].job[1]].future = "done"
    /\ waiters' = [waiters EXCEPT ![w].pc = "returned"]
    /\ UNCHANGED rvars
    /\ UNCHANGED mvars
    /\ UNCHANGED <<concurrency, semaphore, jobs, last_job_id, run_job,
                   probe_task, client_requests, metrics_calls>>

\* ------------------------------------------------------------------------
\* The application changes its description (routes added, removed, edited)
\* ------------------------------------------------------------------------
SetPathItem(path, item) ==
    /\ changes < MaxChanges
    /\ Get(schema.paths, path, <<>>) # item
    /\ schema' = [schema EXCEPT !.paths = Put(schema.paths, path, item)]
    /\ changes' = changes + 1
    /\ UNCHANGED <<exclude_prefixes, reg_endpoints, schema_hash,
                   derivations, returned>>
    /\ UNCHANGED callers
    /\ UNCHANGED pvars
    /\ UNCHANGED mvars

RemovePath(path) ==
    /\ changes < MaxChanges
    /\ path \in DOMAIN schema.paths
    /\ schema' = [schema EXCEPT
            !.paths = [p \in DOMAIN schema.paths \ {path} |-> schema.paths[p]]]
    /\ changes' = changes + 1
    /\ UNCHANGED <<exclude_prefixes, reg_endpoints, schema_hash,
                   derivations, returned>>
    /\ UNCHANGED callers
    /\ UNCHANGED pvars
    /\ UNCHANGED mvars

\* a change of the description outside "paths"
SetTitle(title) ==
    /\ changes < MaxChanges
    /\ title # schema.title
    /\ schema' = [schema EXCEPT !.title = title]
    /\ changes' = changes + 1
    /\ UNCHANGED <<exclude_prefixes, reg_endpoints, schema_hash,
                   derivations, returned>>
    /\ UNCHANGED callers
    /\ UNCHANGED pvars
    /\ UNCHANGED mvars

\* ------------------------------------------------------------------------
\* refresh, list_endpoints, get_endpoint_map, auto_probe_targets
\* ------------------------------------------------------------------------
\* Variant: refresh without the hash gate.
RefreshBodyUngated ==
    /\ reg_endpoints' = Derive(schema.paths, exclude_prefixes)
    /\ schema_hash' = Some(Hash(schema.paths))
    /\ derivations' = derivations + 1

\* Variant: refresh storing the hash before the derivation has come to its
\* end.
RefreshBodyHashFirst ==
    IF Some(Hash(schema.paths)) = schema_hash
    THEN UNCHANGED <<reg_endpoints, schema_hash, derivations>>
    ELSE IF DeriveRaises(schema.paths, exclude_prefixes)
         THEN /\ schema_hash' = Some(Hash(schema.paths))
              /\ UNCHANGED <<reg_endpoints, derivations>>
         ELSE /\ reg_endpoints' = Derive(schema.paths, exclude_prefixes)
              /\ schema_hash' = Some(Hash(schema.paths))
              /\ derivations' = derivations + 1

\* The body of refresh(): hash the paths, return when the hash is the cached
\* one, else derive the list and store list and hash.  An exception of the
\* derivation leaves refresh before anything is stored; derivations counts
\* the derivations that came to their end.
RefreshBody ==
    IF Some(Hash(schema.paths)) = schema_hash
    THEN UNCHANGED <<reg_endpoints, schema_hash, derivations>>
    ELSE IF DeriveRaises(schema.paths, exclude_prefixes)
         THEN UNCHANGED <<reg_endpoints, schema_hash, derivations>>
         ELSE /\ reg_endpoints' = Derive(schema.paths, exclude_prefixes)
              /\ schema_hash' = Some(Hash(schema.paths))
              /\ derivations' = derivations + 1

\* this call of refresh() raises
RefreshRaises ==
    /\ Some(Hash(schema.paths)) # schema_hash
    /\ DeriveRaises(schema.paths, exclude_prefixes)

\* what a call hands back: the exception of refresh(), or its value
Outcome(call, value) ==
    IF RefreshRaises
    THEN [call |-> call, derived |-> FALSE, raised |-> TRUE, value |-> None]
    ELSE [call |-> call, derived |-> derivations' # derivations,
          raised |-> FALSE, value |-> value]

Refresh ==
    /\ RefreshBody
    /\ returned' = Outcome("refresh", None)
    /\ UNCHANGED <<schema, exclude_prefixes, changes>>
    /\ UNCHANGED callers
    /\ UNCHANGED pvars
    /\ UNCHANGED mvars

ListEndpoints ==
    /\ RefreshBody
    /\ returned' = Outcome("list_endpoints", reg_endpoints')
    /\ UNCHANGED <<schema, exclude_prefixes, changes>>
    /\ UNCHANGED callers
    /\ UNCHANGED pvars
    /\ UNCHANGED mvars

\* {endpoint.id: endpoint for endpoint in self.list_endpoints()}: a later
\* entry of the list replaces an earlier one with the same id
EndpointMap(list) ==
    [id \in {list[n].id : n \in DOMAIN list} |->
        LET last == CHOOSE n \in DOMAIN list :
                        /\ list[n].id = id
                        /\ \A k \in DOMAIN list : list[k].id = id => k <= n
        IN  list[last]]

GetEndpointMap ==
    /\ RefreshBody
    /\ returned' = Outcome("get_endpoint_map", EndpointMap(reg_endpoints'))
    /\ UNCHANGED <<schema, exclude_prefixes, changes>>
    /\ UNCHANGED callers
    /\ UNCHANGED pvars
    /\ UNCHANGED mvars

NoInputNeeded(endpoint) == ~endpoint.requires_input

\* Variant: only path parameters keep an endpoint out.
AutoTargetsIgnoringBody(list) ==
    LET NoPathParams(endpoint) == ~endpoint.has_path_params
    IN  SelectSeq(list, NoPathParams)

\* [endpoint for endpoint in list if not endpoint.requires_input]
AutoTargets(list) == SelectSeq(list, NoInputNeeded)

AutoProbeTargets ==
    /\ RefreshBody
    /\ returned' = Outcome("auto_probe_targets", AutoTargets(reg_endpoints'))
    /\ UNCHANGED <<schema, exclude_prefixes, changes>>
    /\ UNCHANGED callers
    /\ UNCHANGED pvars
    /\ UNCHANGED mvars

\* ------------------------------------------------------------------------
\* list_endpoints() run by several threads.  The handler of GET
\* /health/pulse/endpoints is a plain function, which the framework runs on
\* a pool of threads; refresh() takes no lock, so the threads interleave
\* between any two of its reads and writes of the registry's attributes.
\* ------------------------------------------------------------------------
\* lines 51-55: the description is read and hashed
CallerRead(t) ==
    /\ callers[t].pc = "idle"
    /\ callers' = [callers EXCEPT ![t] =
            [pc |-> "hashed", paths |-> Some(schema.paths),
             endpoints |-> None, result |-> None]]
    /\ UNCHANGED <<schema, exclude_prefixes, reg_endpoints, schema_hash,
                   derivations, changes, returned>>
    /\ UNCHANGED pvars
    /\ UNCHANGED mvars

\* lines 57-101: self._schema_hash is read; on a match refresh returns, else
\* the list is built in a local variable
CallerGate(t) ==
    /\ callers[t].pc = "hashed"
    /\ callers' = [callers EXCEPT ![t] =
            IF Some(Hash(callers[t].paths[1])) = schema_hash
            THEN [@ EXCEPT !.pc = "refreshed"]
            ELSE [@ EXCEPT !.pc = "derived",
                           !.endpoints =
                                Some(Derive(callers[t].paths[1],
                                            exclude_prefixes))]]
    /\ UNCHANGED <<schema, exclude_prefixes, reg_endpoints, schema_hash,
                   derivations, changes, returned>>
    /\ UNCHANGED pvars
    /\ UNCHANGED mvars

\* line 102: self._endpoints = endpoints
CallerStoreList(t) ==
    /\ callers[t].pc = "derived"
    /\ reg_endpoints' = callers[t].endpoints[1]
    /\ callers' = [callers EXCEPT ![t].pc = "list_stored"]
    /\ UNCHANGED <<schema, exclude_prefixes, schema_hash, derivations,
                   changes, returned>>
    /\ UNCHANGED pvars
    /\ UNCHANGED mvars

\* line 103: self._schema_hash = schema_hash
CallerStoreHash(t) ==
    /\ callers[t].pc = "list_stored"
    /\ schema_hash' = Some(Hash(callers[t].paths[1]))
    /\ derivations' = derivations + 1
    /\ callers' = [callers EXCEPT ![t].pc = "refreshed"]
    /\ UNCHANGED <<schema, exclude_prefixes, reg_endpoints, changes,
                   returned>>
    /\ UNCHANGED pvars
    /\ UNCHANGED mvars

\* line 108: return list(self._endpoints)
CallerReturn(t) ==
    /\ callers[t].pc = "refreshed"
    /\ callers' = [callers EXCEPT ![t] =
            [pc |-> "idle", paths |-> None, endpoints |-> None,
             result |-> Some(reg_endpoints)]]
    /\ UNCHANGED <<schema, exclude_prefixes, reg_endpoints, schema_hash,
                   derivations, changes, returned>>
    /\ UNCHANGED pvars
    /\ UNCHANGED mvars

\* list_endpoints on a description whose dicts have an order
ListEndpointsInOrder ==
    /\ IF Some(Hash(schema.paths)) = schema_hash
       THEN UNCHANGED <<reg_endpoints, schema_hash, derivations>>
       ELSE /\ reg_endpoints' =
                    StableSort(Collect(schema.paths, exclude_prefixes,
                                       schema.path_order, schema.key_order))
            /\ schema_hash' = Some(Hash(schema.paths))
            /\ derivations' = derivations + 1
    /\ returned' = Outcome("list_endpoints", reg_endpoints')
    /\ UNCHANGED <<schema, exclude_prefixes, changes>>
    /\ UNCHANGED callers
    /\ UNCHANGED pvars
    /\ UNCHANGED mvars

\* the application describes the same paths with its dicts in another order
Reorder(path_order, key_order) ==
    /\ <<path_order, key_order>> # <<schema.path_order, schema.key_order>>
    /\ schema' = [schema EXCEPT !.path_order = path_order,
                                !.key_order = key_order]
    /\ UNCHANGED <<exclude_prefixes, reg_endpoints, schema_hash,
                   derivations, changes, returned>>
    /\ UNCHANGED callers
    /\ UNCHANGED pvars
    /\ UNCHANGED mvars

\* ------------------------------------------------------------------------
\* get_job(job_id) and last_job()
\* ------------------------------------------------------------------------
\* self._jobs.get(job_id)
GetJob(id) == IF id \in JobIds THEN Some(jobs[id]) ELSE None

\* Variant: only a job that has finished is reported.
LastJobFinishedOnly ==
    IF last_job_id # None /\ GetJob(last_job_id[1]) # None
    THEN IF jobs[last_job_id[1]].status = "completed"
         THEN GetJob(last_job_id[1])
         ELSE None
    ELSE None

LastJob == IF last_job_id # None THEN GetJob(last_job_id[1]) ELSE None

\* ------------------------------------------------------------------------
\* Specifications
\* ------------------------------------------------------------------------
\* what start_probe and the tasks it creates do
NextProbe ==
    \/ \E endpoints \in TargetLists : StartProbe(endpoints)
    \/ \E j \in 1..MaxJobs : RunJobStart(j)
    \/ \E j \in 1..MaxJobs : RunJobFinish(j)
    \/ \E j \in 1..MaxJobs, i \in 1..MaxProbes : ProbeSkip(j, i)
    \/ \E j \in 1..MaxJobs, i \in 1..MaxProbes : ProbeRequest(j, i)
    \/ \E j \in 1..MaxJobs, i \in 1..MaxProbes, o \in ProbeOutcomes :
            ProbeReturn(j, i, o)

\* what callers of wait_for_completion do
NextWait ==
    \/ \E w \in 1..NumWaiters, id \in 1..(MaxJobs + 1) : WaitCall(w, id)
    \/ \E w \in 1..NumWaiters : WaitResume(w)

Next == NextProbe \/ NextWait

Spec == Init /\ [][Next]_vars

\* The jobs on their own: nobody calls wait_for_completion, which only reads
\* the jobs.
SpecProbe == Init /\ [][NextProbe]_vars

\* everything the event loop does on its own once jobs were started
Progress ==
    \/ \E j \in 1..MaxJobs : RunJobStart(j)
    \/ \E j \in 1..MaxJobs : RunJobFinish(j)
    \/ \E j \in 1..MaxJobs, i \in 1..MaxProbes : ProbeSkip(j, i)
    \/ \E j \in 1..MaxJobs, i \in 1..MaxProbes : ProbeRequest(j, i)
    \/ \E j \in 1..MaxJobs, i \in 1..MaxProbes, o \in ProbeOutcomes :
            ProbeReturn(j, i, o)

\* Liveness of the jobs.  The event loop does not stop while a task is ready
\* to run or a synthetic call is outstanding (every call returns or fails,
\* it carries its own timeout).  Calls of start_probe come from outside and
\* are not forced to happen.
Fairness == WF_vars(Progress)

SpecLive == Init /\ [][NextProbe]_vars /\ Fairness

\* The registry on its own: the application with a registry constructed with
\* any of PrefixArgs, its description changing between the registry's calls.
InitRegistry ==
    /\ concurrency = 1
    /\ semaphore = Max(1, concurrency)
    /\ jobs = <<>>
    /\ last_job_id = None
    /\ run_job = <<>>
    /\ probe_task = <<>>
    /\ client_requests = <<>>
    /\ metrics_calls = <<>>
    /\ waiters = [w \in 1..NumWaiters |-> [pc |-> "idle", job |-> None]]
    /\ \E arg \in PrefixArgs : RegistryInit(arg)
    /\ MonitorInit

NextRegistry ==
    \/ \E path \in Paths, item \in PathItemChoices : SetPathItem(path, item)
    \/ \E path \in Paths : RemovePath(path)
    \/ \E title \in Titles : SetTitle(title)
    \/ Refresh
    \/ ListEndpoints
    \/ GetEndpointMap
    \/ AutoProbeTargets

SpecRegistry == InitRegistry /\ [][NextRegistry]_vars

\* The registry called by several threads while the application changes the
\* operations of one path.
RaceItemChoices ==
    { [get |-> OpList],
      [get |-> OpListAll],
      [get |-> OpList, post |-> OpCreate, put |-> OpLoose] }

NextRace ==
    \/ \E item \in RaceItemChoices : SetPathItem(ItemsPath, item)
    \/ \E t \in 1..NumCallers : CallerRead(t)
    \/ \E t \in 1..NumCallers : CallerGate(t)
    \/ \E t \in 1..NumCallers : CallerStoreList(t)
    \/ \E t \in 1..NumCallers : CallerStoreHash(t)
    \/ \E t \in 1..NumCallers : CallerReturn(t)

SpecRace == InitRegistry /\ [][NextRace]_vars

\* The registry reading descriptions with malformed nodes: an operation or a
\* path item that is not a dict, a parameter that is not a dict.
OpSearch == [summary |-> "Search", parameters |-> <<Scalar("oops")>>]

MalformedItemChoices ==
    { [get |-> OpList],
      Scalar("oops"),
      [get |-> Scalar("oops"), post |-> OpCreate],
      [get |-> OpSearch, post |-> OpCreate],
      [parameters |-> <<PathParam, Scalar("oops")>>, get |-> OpRead] }

NextMalformed ==
    \/ \E path \in Paths, item \in MalformedItemChoices :
            SetPathItem(path, item)
    \/ Refresh
    \/ ListEndpoints

SpecMalformed == InitRegistry /\ [][NextMalformed]_vars

\* The registry reading descriptions whose dicts come in any order, two keys
\* of one path that differ by case only ("get", "GET") included.
OrderedItemChoices ==
    { [get |-> OpList, post |-> OpCreate, put |-> OpLoose],
      [parameters |-> <<PathParam>>, get |-> OpRead, trace |-> OpList],
      [get |-> OpList, GET |-> OpListAll] }

InitOrder ==
    /\ concurrency = 1
    /\ semaphore = Max(1, concurrency)
    /\ jobs = <<>>
    /\ last_job_id = None
    /\ run_job = <<>>
    /\ probe_task = <<>>
    /\ client_requests = <<>>
    /\ metrics_calls = <<>>
    /\ waiters = [w \in 1..NumWaiters |-> [pc |-> "idle", job |-> None]]
    /\ \E items \in [{ItemsPath, ItemPath, DashboardPath}
                        -> OrderedItemChoices] :
            schema = [title |-> "app",
                      paths |-> [p \in Paths |->
                                    IF p = PulsePath THEN [get |-> OpList]
                                    ELSE items[p]],
                      path_order |-> PathOrder,
                      key_order |-> CHOOSE order \in KeyOrders :
                                        order[1] = "parameters"]
    /\ MonitorInit
    /\ exclude_prefixes = ExcludePrefixes({})
    /\ reg_endpoints = <<>>
    /\ schema_hash = None
    /\ derivations = 0
    /\ changes = 0
    /\ returned = [call |-> "none", derived |-> FALSE, raised |-> FALSE,
                  value |-> None]
    /\ callers = [t \in 1..NumCallers |-> IdleCaller]

NextOrder ==
    \/ \E path_order \in PathOrders(Paths), key_order \in KeyOrders :
            Reorder(path_order, key_order)
    \/ ListEndpointsInOrder

SpecOrder == InitOrder /\ [][NextOrder]_vars

\* Classification of one probe over a wide range of responses: the manager
\* with one running job whose single target (no input required) has its
\* request in flight, which then returns any of ClassifyOutcomes.
ClassifyOutcomes ==
    {Response(code, ms, 501) :
        code \in {100, 199, 200, 201, 302, 399, 400, 404, 500, 599},
        ms \in {0, 999, 1000, 1001, 5000}}
    \cup {Raised("timeout", 10000, 20), Raised("error", 5, 600)}

InitClassify ==
    /\ concurrency \in 1..MaxConcurrency
    /\ semaphore = Acquire(Max(1, concurrency))
    /\ jobs = <<[NewJob(1, <<"GET /items">>) EXCEPT
                    !.status = "running", !.started_at = Stamp]>>
    /\ last_job_id = Some(1)
    /\ run_job = <<[pc |-> "gathering", endpoints |-> <<"GET /items">>]>>
    /\ probe_task = << <<"inflight">> >>
    /\ client_requests = << <<1>> >>
    /\ metrics_calls = << << <<>> >> >>
    /\ waiters = [w \in 1..NumWaiters |-> [pc |-> "idle", job |-> None]]
    /\ RegistryInit({})
    /\ MonitorInit

NextClassify ==
    \/ \E o \in ClassifyOutcomes : ProbeReturn(1, 1, o)
    \/ RunJobFinish(1)

SpecClassify == InitClassify /\ [][NextClassify]_vars

\* ------------------------------------------------------------------------
\* POST /health/pulse/probe (trigger_probe): the registry's endpoint map, the
\* payload's endpoint ids looked up in it, start_probe with the targets.
\* An empty payload stands for no payload and for one without endpoints.
\* ------------------------------------------------------------------------
MissingId == <<"GET", <<"/", "missing">> >>

PayloadIds == {<<"GET", ItemsPath>>, <<"GET", ItemPath>>, MissingId}

Payloads == UNION {[1..n -> PayloadIds] : n \in 0..MaxProbes}

\* the descriptor as the prober knows it
TargetId(endpoint) ==
    CASE endpoint.id = <<"GET", ItemsPath>> -> "GET /items"
      [] endpoint.id = <<"GET", ItemPath>> -> "GET /items/{id}"

\* variant: not-found only when every id of the payload is unknown; the
\* known ones are probed otherwise
TriggerProbeLenient(payload) ==
    /\ ~RefreshRaises
    /\ RefreshBody
    /\ LET endpoint_map == EndpointMap(reg_endpoints')
           Unknown(id) == id \notin DOMAIN endpoint_map
           missing == SelectSeq(payload, Unknown)
           Known(id) == id \in DOMAIN endpoint_map
           found == SelectSeq(payload, Known)
           targets == IF payload # <<>>
                      THEN [n \in DOMAIN found |-> endpoint_map[found[n]]]
                      ELSE reg_endpoints'
       IN  IF payload # <<>> /\ missing = payload
           THEN /\ response' = Some([payload |-> payload,
                                     status_code |-> 404,
                                     missing_endpoints |-> missing])
                /\ returned' = Outcome("get_endpoint_map", endpoint_map)
                /\ UNCHANGED pvars
           ELSE /\ StartProbeCall([n \in DOMAIN targets |->
                                        TargetId(targets[n])])
                /\ response' = Some([payload |-> payload,
                                     status_code |-> 200,
                                     job_id |-> NewJobId,
                                     total |-> Len(targets)])
                /\ returned' =
                        IF payload # <<>>
                        THEN Outcome("get_endpoint_map", endpoint_map)
                        ELSE Outcome("list_endpoints", reg_endpoints')
    /\ UNCHANGED <<schema, exclude_prefixes, changes, callers>>
    /\ UNCHANGED <<metrics, recorded, requests>>

TriggerProbe(payload) ==
    /\ ~RefreshRaises
    /\ RefreshBody
    /\ LET endpoint_map == EndpointMap(reg_endpoints')
           Unknown(id) == id \notin DOMAIN endpoint_map
           missing == SelectSeq(payload, Unknown)
           targets == IF payload # <<>>
                      THEN [n \in DOMAIN payload |-> endpoint_map[payload[n]]]
                      ELSE reg_endpoints'
       IN  IF payload # <<>> /\ missing # <<>>
           THEN /\ response' = Some([payload |-> payload,
                                     status_code |-> 404,
                                     missing_endpoints |-> missing])
                /\ returned' = Outcome("get_endpoint_map", endpoint_map)
                /\ UNCHANGED pvars
           ELSE /\ StartProbeCall([n \in DOMAIN targets |->
                                        TargetId(targets[n])])
                /\ response' = Some([payload |-> payload,
                                     status_code |-> 200,
                                     job_id |-> NewJobId,
                                     total |-> Len(targets)])
                /\ returned' =
                        IF payload # <<>>
                        THEN Outcome("get_endpoint_map", endpoint_map)
                        ELSE Outcome("list_endpoints", reg_endpoints')
    /\ UNCHANGED <<schema, exclude_prefixes, changes, callers>>
    /\ UNCHANGED <<metrics, recorded, requests>>

\* The router in front of the registry and the prober: the application has
\* GET /items and GET /items/{id}, either of which may go and come back.
InitTrigger ==
    /\ concurrency = 1
    /\ semaphore = Max(1, concurrency)
    /\ jobs = <<>>
    /\ last_job_id = None
    /\ run_job = <<>>
    /\ probe_task = <<>>
    /\ client_requests = <<>>
    /\ metrics_calls = <<>>
    /\ waiters = [w \in 1..NumWaiters |-> [pc |-> "idle", job |-> None]]
    /\ schema = [BaseSchema EXCEPT !.paths[ItemsPath] = [get |-> OpList]]
    \* add_pulse: PulseEndpointRegistry(app, ('/health/pulse', dashboard))
    /\ exclude_prefixes = ExcludePrefixes({<<"/", "dashboard">>})
    /\ reg_endpoints = <<>>
    /\ schema_hash = None
    /\ derivations = 0
    /\ changes = 0
    /\ returned = [call |-> "none", derived |-> FALSE, raised |-> FALSE,
                   value |-> None]
    /\ callers = [t \in 1..NumCallers |-> IdleCaller]
    /\ MonitorInit

NextTrigger ==
    \/ \E payload \in Payloads : TriggerProbe(payload)
    \/ \E path \in {ItemsPath, ItemPath} : RemovePath(path)
    \/ SetPathItem(ItemsPath, [get |-> OpList])
    \/ SetPathItem(ItemPath, BaseSchema.paths[ItemPath])
    \/ \E j \in 1..MaxJobs : RunJobStart(j)
    \/ \E j \in 1..MaxJobs : RunJobFinish(j)
    \/ \E j \in 1..MaxJobs, i \in 1..MaxProbes : ProbeSkip(j, i)
    \/ \E j \in 1..MaxJobs, i \in 1..MaxProbes : ProbeRequest(j, i)
    \/ \E j \in 1..MaxJobs, i \in 1..MaxProbes :
            ProbeReturn(j, i, Response(200, 1000, 2))

SpecTrigger == InitTrigger /\ [][NextTrigger]_vars

\* ------------------------------------------------------------------------
\* The metrics aggregator (record_request, get_metrics).  A key is the pair
\* <<method, endpoint>>; its statistics are the three counters and the
\* bounded window of the latest durations.
\* ------------------------------------------------------------------------
\* variant: at capacity the newest sample is replaced
PushEvictingNewest(window, duration_ms) ==
    IF Len(window) >= WindowCapacity
    THEN Append(SubSeq(window, 1, Len(window) - 1), duration_ms)
    ELSE Append(window, duration_ms)

\* append to a window of fixed capacity: at capacity the oldest sample goes
Push(window, duration_ms) ==
    IF Len(window) >= WindowCapacity
    THEN Append(Tail(window), duration_ms)
    ELSE Append(window, duration_ms)

\* variant: a status of 400 still counts as a success
RecordRequestLenient(m, endpoint, method, status_code, duration_ms) ==
    LET key == <<method, endpoint>>
        old == IF key \in DOMAIN m
               THEN m[key]
               ELSE [total_requests |-> 0, success_count |-> 0,
                     error_count |-> 0, window |-> <<>>]
        new == [total_requests |-> old.total_requests + 1,
                success_count |-> IF status_code <= 400
                                  THEN old.success_count + 1
                                  ELSE old.success_count,
                error_count |-> IF status_code <= 400
                                THEN old.error_count
                                ELSE old.error_count + 1,
                window |-> Push(old.window, duration_ms)]
    IN  [k \in DOMAIN m \cup {key} |-> IF k = key THEN new ELSE m[k]]

RecordRequest(m, endpoint, method, status_code, duration_ms) ==
    LET key == <<method, endpoint>>
        old == IF key \in DOMAIN m
               THEN m[key]
               ELSE [total_requests |-> 0, success_count |-> 0,
                     error_count |-> 0, window |-> <<>>]
        new == [total_requests |-> old.total_requests + 1,
                success_count |-> IF status_code < 400
                                  THEN old.success_count + 1
                                  ELSE old.success_count,
                error_count |-> IF status_code < 400
                                THEN old.error_count
                                ELSE old.error_count + 1,
                window |-> Push(old.window, duration_ms)]
    IN  [k \in DOMAIN m \cup {key} |-> IF k = key THEN new ELSE m[k]]

\* requests, errors and retained samples of all the keys together: the sums
\* are the sizes of the disjoint unions; the order of the keys plays no part
\* in the summary, the samples are kept ascending
Totals(m, keys) ==
    LET calls == UNION {{k} \X (1..m[k].total_requests) : k \in keys}
        failed == UNION {{k} \X (1..m[k].error_count) : k \in keys}
        places == UNION {{k} \X DOMAIN m[k].window : k \in keys}
        At(p) == m[p[1]].window[p[2]]
    IN  [requests |-> Cardinality(calls),
         errors |-> Cardinality(failed),
         samples |->
            [i \in 1..Cardinality(places) |->
                CHOOSE v \in {At(p) : p \in places} :
                    /\ Cardinality({p \in places : At(p) < v}) < i
                    /\ Cardinality({p \in places : At(p) <= v}) >= i]]

\* sorted(samples): place i of the ascending order holds the value v with
\* fewer than i samples below v and at least i samples not above v
SortSamples(samples) ==
    [i \in 1..Len(samples) |->
        CHOOSE v \in Range(samples) :
            /\ Cardinality({j \in DOMAIN samples : samples[j] < v}) < i
            /\ Cardinality({j \in DOMAIN samples : samples[j] <= v}) >= i]

\* variant: the largest sample
Percentile95Largest(samples) ==
    SortSamples(samples)[Len(samples)]

\* the sample at index ceil(0.95 * n) - 1 of the sorted samples (counted
\* from 0; sequences here count from 1)
Percentile95(samples) ==
    SortSamples(samples)[(19 * Len(samples) + 19) \div 20]

\* a quotient kept exact: num / den
Ratio(num, den) == [num |-> num, den |-> den]
Below(ratio, limit) == ratio.num < limit * ratio.den

\* get_metrics()["summary"]: error_rate is there once a request was
\* recorded, p95_response_time once a sample is retained
Summary(m) ==
    LET all == Totals(m, DOMAIN m)
        keys == {"total_requests"}
                \cup (IF all.requests > 0 THEN {"error_rate"} ELSE {})
                \cup (IF all.samples # <<>> THEN {"p95_response_time"} ELSE {})
    IN  [k \in keys |->
            CASE k = "total_requests" -> all.requests
              [] k = "error_rate" -> Ratio(100 * all.errors, all.requests)
              [] k = "p95_response_time" -> Percentile95(all.samples)]

\* variant: a p95 of exactly 200 ms still meets the latency SLA
SlaComplianceInclusive(summary) ==
    LET error_rate == IF "error_rate" \in DOMAIN summary
                      THEN summary["error_rate"]
                      ELSE Ratio(0, 1)
        latency_sla_met == IF "p95_response_time" \in DOMAIN summary
                           THEN Some(summary["p95_response_time"] <= 200)
                           ELSE None
        error_rate_sla_met == Below(error_rate, 5)
        overall_sla_met == IF latency_sla_met = None
                           THEN None
                           ELSE Some(latency_sla_met[1] /\ error_rate_sla_met)
    IN  [latency_sla_met |-> latency_sla_met,
         error_rate_sla_met |-> error_rate_sla_met,
         overall_sla_met |-> overall_sla_met]

\* the sla_compliance part of the answer of GET /health/pulse
SlaCompliance(summary) ==
    LET error_rate == IF "error_rate" \in DOMAIN summary
                      THEN summary["error_rate"]
                      ELSE Ratio(0, 1)
        latency_sla_met == IF "p95_response_time" \in DOMAIN summary
                           THEN Some(summary["p95_response_time"] < 200)
                           ELSE None
        error_rate_sla_met == Below(error_rate, 5)
        overall_sla_met == IF latency_sla_met = None
                           THEN None
                           ELSE Some(latency_sla_met[1] /\ error_rate_sla_met)
    IN  [latency_sla_met |-> latency_sla_met,
         error_rate_sla_met |-> error_rate_sla_met,
         overall_sla_met |-> overall_sla_met]

\* calls of record_request since the start (a warm start has WarmLen calls
\* behind it)
Fresh(log) == IF Len(log) >= WarmLen THEN Len(log) - WarmLen ELSE Len(log)

\* one call of record_request
Record(endpoint, method, status_code, duration_ms, correlation_id) ==
    /\ Fresh(recorded) < MaxRecords
    /\ metrics' = RecordRequest(metrics, endpoint, method, status_code,
                                duration_ms)
    /\ recorded' = Append(recorded,
                          [endpoint |-> endpoint, method |-> method,
                           status_code |-> status_code,
                           duration_ms |-> duration_ms,
                           correlation_id |-> correlation_id])
    /\ UNCHANGED <<requests, response>>
    /\ UNCHANGED pvars
    /\ UNCHANGED rvars

\* GET /health/pulse
GetPulseMetrics ==
    /\ response' = Some([summary |-> Summary(metrics),
                         sla_compliance |-> SlaCompliance(Summary(metrics))])
    /\ UNCHANGED <<metrics, recorded, requests>>
    /\ UNCHANGED pvars
    /\ UNCHANGED rvars

\* The aggregator fed by any callers, read by the router.  It starts fresh
\* or after the calls of WarmLog: 18 requests served and one failed.
Observation(endpoint, status_code, duration_ms) ==
    [endpoint |-> endpoint, method |-> "GET", status_code |-> status_code,
     duration_ms |-> duration_ms, correlation_id |-> "unknown"]

Observations ==
    { Observation("/items", 200, 150), Observation("/items", 399, 200),
      Observation("/items", 400, 250), Observation("/orders/{id}", 500, 150),
      Observation("/orders/{id}", 200, 250),
      Observation("/orders/{id}", 200, 150) }

WarmLog ==
    [n \in 1..WarmLen |->
        IF n = 1 THEN Observation("/orders/{id}", 500, 150)
                 ELSE Observation("/items", 200, 150)]

\* the aggregator after the calls of log, in their order
RECURSIVE Replay(_)
Replay(log) ==
    IF log = <<>>
    THEN <<>>
    ELSE LET last == log[Len(log)]
         IN  RecordRequest(Replay(SubSeq(log, 1, Len(log) - 1)),
                           last.endpoint, last.method, last.status_code,
                           last.duration_ms)

InitMetrics ==
    /\ concurrency = 1
    /\ semaphore = Max(1, concurrency)
    /\ jobs = <<>>
    /\ last_job_id = None
    /\ run_job = <<>>
    /\ probe_task = <<>>
    /\ client_requests = <<>>
    /\ metrics_calls = <<>>
    /\ waiters = [w \in 1..NumWaiters |-> [pc |-> "idle", job |-> None]]
    /\ RegistryInit({})
    /\ recorded \in {<<>>, WarmLog}
    /\ metrics = Replay(recorded)
    /\ requests = <<>>
    /\ response = None

NextMetrics ==
    \/ \E o \in Observations :
            Record(o.endpoint, o.method, o.status_code, o.duration_ms,
                   o.correlation_id)
    \/ GetPulseMetrics

SpecMetrics == InitMetrics /\ [][NextMetrics]_vars

\* The aggregator after n calls spread over n / 2 keys, two calls a key, so
\* that every sample is retained: durations of 100, the last `slow` ones 1000.
BlockLog(n, slow) ==
    [k \in 1..n |->
        Observation("/e" \o ToString((k + 1) \div 2), 200,
                    IF k > n - slow THEN 1000 ELSE 100)]

InitPercentile ==
    /\ concurrency = 1
    /\ semaphore = Max(1, concurrency)
    /\ jobs = <<>>
    /\ last_job_id = None
    /\ run_job = <<>>
    /\ probe_task = <<>>
    /\ client_requests = <<>>
    /\ metrics_calls = <<>>
    /\ waiters = [w \in 1..NumWaiters |-> [pc |-> "idle", job |-> None]]
    /\ RegistryInit({})
    /\ \E n \in {0, 1, 2, 20, 21, 40, 100}, slow \in 0..3 :
            /\ slow <= n
            /\ recorded = BlockLog(n, slow)
    \* what the calls of recorded leave behind: no key has more than two
    \* calls, none failed, so every window is its key's durations in order
    /\ metrics =
            [key \in {<<o.method, o.endpoint>> : o \in Range(recorded)} |->
                LET ForKey(o) == <<o.method, o.endpoint>> = key
                    calls == SelectSeq(recorded, ForKey)
                IN  [total_requests |-> Len(calls),
                     success_count |-> Len(calls),
                     error_count |-> 0,
                     window |-> [i \in 1..Len(calls) |->
                                    calls[i].duration_ms]]]
    /\ requests = <<>>
    /\ response = None

NextPercentile ==
    \/ \E duration_ms \in {100, 1000} :
            Record("/items", "GET", 200, duration_ms, "unknown")
    \/ GetPulseMetrics

SpecPercentile == InitPercentile /\ [][NextPercentile]_vars

\* ------------------------------------------------------------------------
\* PerformanceMiddleware (fastapi_performance_monitor/middleware.py).  A path
\* is the sequence of its characters.
\* ------------------------------------------------------------------------
DecimalDigits == {"0", "1", "2", "3", "4", "5", "6", "7", "8", "9"}

HexDigits ==
    DecimalDigits
    \cup {"a", "b", "c", "d", "e", "f", "A", "B", "C", "D", "E", "F"}

Placeholder == <<"/", "{", "i", "d", "}">>

\* r'/[0-9a-f]{8}-[0-9a-f]{4}-[0-9a-f]{4}-[0-9a-f]{4}-[0-9a-f]{12}' with
\* re.IGNORECASE matches at position i of path
UuidAt(path, i) ==
    /\ i + 36 <= Len(path)
    /\ path[i] = "/"
    /\ \A k \in 1..36 :
            IF k \in {9, 14, 19, 24}
            THEN path[i + k] = "-"
            ELSE path[i + k] \in HexDigits

\* re.sub of the UUID pattern: the matches from left to right, each replaced
RECURSIVE SubUuid(_)
SubUuid(path) ==
    IF path = <<>>
    THEN <<>>
    ELSE IF UuidAt(path, 1)
         THEN Placeholder \o SubUuid(SubSeq(path, 38, Len(path)))
         ELSE <<path[1]>> \o SubUuid(Tail(path))

\* variant: a slash and one digit after it, replaced
RECURSIVE SubDigitsOneDigit(_)
SubDigitsOneDigit(path) ==
    IF path = <<>>
    THEN <<>>
    ELSE IF Len(path) >= 2 /\ path[1] = "/" /\ path[2] \in DecimalDigits
         THEN Placeholder \o SubDigitsOneDigit(SubSeq(path, 3, Len(path)))
         ELSE <<path[1]>> \o SubDigitsOneDigit(Tail(path))

\* re.sub(r'/\d+', '/{id}', path): a slash and the longest run of digits
\* after it, replaced
RECURSIVE SubDigits(_)
SubDigits(path) ==
    IF path = <<>>
    THEN <<>>
    ELSE IF Len(path) >= 2 /\ path[1] = "/" /\ path[2] \in DecimalDigits
         THEN LET run == CHOOSE n \in 1..(Len(path) - 1) :
                            /\ \A k \in 1..n : path[1 + k] \in DecimalDigits
                            /\ \/ 1 + n = Len(path)
                               \/ path[2 + n] \notin DecimalDigits
              IN  Placeholder \o SubDigits(SubSeq(path, run + 2, Len(path)))
         ELSE <<path[1]>> \o SubDigits(Tail(path))

NormalizePath(path) == SubDigits(SubUuid(path))

\* the paths of the requests
RawPaths ==
    LET orders == <<"/", "o", "r", "d", "e", "r", "s">>
        users == <<"/", "u", "s", "e", "r", "s">>
        uuid == <<"/">> \o
                <<"1", "2", "3", "e", "4", "5", "6", "7", "-", "e", "8",
                "9", "b", "-", "1", "2", "d", "3", "-", "a", "4", "5", "6",
                "-", "4", "2", "6", "6", "1", "4", "1", "7", "4", "0", "0",
                "0">>
        upper == <<"/">> \o
                 <<"1", "2", "3", "E", "4", "5", "6", "7", "-", "E", "8",
                 "9", "B", "-", "1", "2", "D", "3", "-", "A", "4", "5", "6",
                 "-", "4", "2", "6", "6", "1", "4", "1", "7", "4", "0", "0",
                 "0">>
    IN  { orders \o <<"/", "4", "2">>,
          orders \o <<"/", "7">>,
          orders \o <<"/", "4", "2", "/">>,
          <<"/", "4", "2">> \o orders,
          <<"/", "2", "f", "a">>,
          <<"/", "v", "2">>,
          users \o uuid,
          users \o upper \o orders,
          uuid \o <<"x">>,
          <<"/", "p", "e", "r", "f", "o", "r", "m", "a", "n", "c", "e">> }

\* the ASGI scopes handed to the middleware
Scopes ==
    [type : {"http"}, method : {"GET"}, path : RawPaths,
     correlation_id : {None}]
    \cup [type : {"http"}, method : {"GET"},
          path : {<<"/", "7">>}, correlation_id : {Some("c1")}]
    \cup [type : {"websocket"}, method : {"GET"},
          path : {<<"/", "7">>}, correlation_id : {None}]

\* __call__ up to the await of the application
Receive(scope) ==
    /\ Len(requests) < MaxRequests
    /\ LET endpoint_path == NormalizePath(scope.path)
       IN  requests' = Append(requests,
                [scope |-> scope,
                 pc |-> IF scope.type # "http" THEN "passed" ELSE "app",
                 correlation_id |-> IF scope.correlation_id = None
                                    THEN "unknown"
                                    ELSE scope.correlation_id[1],
                 endpoint_path |-> endpoint_path,
                 track_metrics |->
                    /\ scope.type = "http"
                    /\ ~StartsWith(endpoint_path,
                                   <<"/", "p", "e", "r", "f", "o", "r", "m",
                                     "a", "n", "c", "e">>),
                 status_code |-> 500,
                 started |-> FALSE,
                 request_failed |-> FALSE,
                 outcome |-> None])
    /\ UNCHANGED <<metrics, recorded, response>>
    /\ UNCHANGED pvars
    /\ UNCHANGED rvars

\* send_wrapper with the application's http.response.start message
SendStart(r, status) ==
    /\ r \in DOMAIN requests
    /\ requests[r].pc = "app"
    /\ ~requests[r].started
    /\ requests' = [requests EXCEPT ![r].status_code = status,
                                    ![r].started = TRUE]
    /\ UNCHANGED <<metrics, recorded, response>>
    /\ UNCHANGED pvars
    /\ UNCHANGED rvars

\* the await of the application ends, by its return ("returned"), by an
\* exception of class Exception, or by one that is only a BaseException
\* ("CancelledError"); then the except and finally clauses
AppEnds(r, outcome, duration_ms) ==
    /\ r \in DOMAIN requests
    /\ requests[r].pc \in {"app", "passed"}
    /\ LET request == requests[r]
           request_failed == outcome = "Exception"
           final_status == IF request_failed THEN 500 ELSE request.status_code
       IN  /\ requests' = [requests EXCEPT
                    ![r].pc = "done",
                    ![r].request_failed =
                        request.pc = "app" /\ request_failed,
                    ![r].outcome = Some(outcome)]
           /\ IF request.pc = "app" /\ request.track_metrics
              THEN /\ metrics' = RecordRequest(metrics, request.endpoint_path,
                                               request.scope.method,
                                               final_status, duration_ms)
                   /\ recorded' = Append(recorded,
                            [endpoint |-> request.endpoint_path,
                             method |-> request.scope.method,
                             status_code |-> final_status,
                             duration_ms |-> duration_ms,
                             correlation_id |-> request.correlation_id])
              ELSE UNCHANGED <<metrics, recorded>>
    /\ UNCHANGED response
    /\ UNCHANGED pvars
    /\ UNCHANGED rvars

NextMiddleware ==
    \/ \E scope \in Scopes : Receive(scope)
    \/ \E r \in 1..MaxRequests, status \in {200, 404} : SendStart(r, status)
    \/ \E r \in 1..MaxRequests,
          outcome \in {"returned", "Exception", "CancelledError"} :
            AppEnds(r, outcome, 150)

\* the middleware in front of a fresh aggregator
InitMiddleware == InitMetrics /\ recorded = <<>>

SpecMiddleware == InitMiddleware /\ [][NextMiddleware]_vars

\* ------------------------------------------------------------------------
\* Claims
\* ------------------------------------------------------------------------
IsJob(j) == j \in JobIds

HasStatus(j, st) == IF j \in JobIds THEN jobs[j].status = st ELSE FALSE

\* C1: every job created by start_probe eventually has status completed,
\* whatever its targets come back with (response, timeout, exception,
\* skipped); no job stays queued or running for ever.
C1_EveryJobCompletes ==
    \A j \in 1..MaxJobs :
        IsJob(j) ~> HasStatus(j, "completed")

\* "the job was completed" as seen on one job record
Completed(j) == jobs[j].status = "completed"

C1_Witness ==
    \E j \in JobIds :
        /\ Completed(j)
        /\ jobs[j].total_targets = 2
        /\ \E e \in DOMAIN jobs[j].results :
                /\ jobs[j].results[e].status = "critical"
                /\ jobs[j].results[e].status_code = None

\* C2: a job is completed only with completed = total_targets, and then its
\* end timestamp is set, its future is resolved and every caller parked on
\* the future can resume; the future is resolved by that transition only, and
\* once completed the job record never changes again, so the transition
\* happens at most once.
C2_CompletedOnlyWhenAllCounted ==
    /\ [](\A j \in JobIds :
            Completed(j) =>
                /\ jobs[j].completed = jobs[j].total_targets
                /\ jobs[j].completed_at # None
                /\ jobs[j].future = "done"
                /\ \A w \in 1..NumWaiters :
                        (waiters[w].pc = "awaiting" /\ waiters[w].job = Some(j))
                            => ENABLED WaitResume(w))
    /\ [][\A j \in JobIds :
            /\ Completed(j) => (j \in JobIds' /\ jobs'[j] = jobs[j])
            /\ jobs[j].future = "done" => Completed(j)]_vars

C2_Witness ==
    \E j \in JobIds, w \in 1..NumWaiters :
        /\ Completed(j)
        /\ jobs[j].total_targets = 2
        /\ waiters[w].pc = "awaiting"
        /\ waiters[w].job = Some(j)

\* number of _probe_endpoint coroutines of job j that ran to their end
DoneTasks(j) ==
    Cardinality({i \in DOMAIN probe_task[j] : probe_task[j][i] = "done"})

\* C3: completed counts each target exactly once, whatever its outcome: it
\* always equals the number of targets whose probe has finished, never
\* exceeds total_targets and never decreases.
C3_CompletedCountsEachTargetOnce ==
    /\ [](\A j \in JobIds :
            /\ jobs[j].completed = DoneTasks(j)
            /\ jobs[j].completed <= jobs[j].total_targets)
    /\ [][\A j \in JobIds :
            j \in JobIds' /\ jobs'[j].completed >= jobs[j].completed]_vars

C3_Witness ==
    \E j \in JobIds :
        /\ jobs[j].completed = 2
        /\ \E e \in DOMAIN jobs[j].results :
                jobs[j].results[e].status = "skipped"
        /\ \E e \in DOMAIN jobs[j].results :
                jobs[j].results[e].status = "healthy"

\* C4: a job's status is queued, running or completed; it only moves
\* queued -> running -> completed, one step at a time, never back and never
\* out of completed; there is no failed status even if every target fails.
C4_JobLifecycle ==
    /\ [](\A j \in JobIds :
            jobs[j].status \in {"queued", "running", "completed"})
    /\ [][\A j \in JobIds :
            /\ j \in JobIds'
            /\ \/ jobs'[j].status = jobs[j].status
               \/ jobs[j].status = "queued" /\ jobs'[j].status = "running"
               \/ jobs[j].status = "running" /\ jobs'[j].status = "completed"
          ]_vars

C4_Witness ==
    \E j \in JobIds :
        /\ Completed(j)
        /\ jobs[j].total_targets = 1
        /\ \A e \in DOMAIN jobs[j].results :
                jobs[j].results[e].status = "critical"

\* the jobs a step adds to self._jobs, i.e. the step is a start_probe call
Started == JobIds' \ JobIds

AllQueued(job) ==
    \A e \in DOMAIN job.results : job.results[e].status = "queued"

\* C5 as stated: when start_probe returns, the new job is already running and
\* every target has a queued ProbeResult.
C5_StartReturnsRunning ==
    [][\A j \in Started :
            jobs'[j].status = "running" /\ AllQueued(jobs'[j])]_vars

\* C5 amended: when start_probe returns, the new job is registered with
\* status queued, nothing counted, its future pending, a queued ProbeResult
\* for every target, and no probe coroutine created yet; it is the scheduled
\* _run_job task that moves it to running, on its first run.
C5_StartReturnsQueued ==
    [][/\ \A j \in Started :
            /\ jobs'[j].status = "queued"
            /\ jobs'[j].completed = 0
            /\ jobs'[j].future = "pending"
            /\ jobs'[j].total_targets = Len(run_job'[j].endpoints)
            /\ DOMAIN jobs'[j].results = Range(run_job'[j].endpoints)
            /\ AllQueued(jobs'[j])
            /\ run_job'[j].pc = "scheduled"
            /\ probe_task'[j] = <<>>
       /\ \A j \in JobIds :
            (jobs[j].status = "queued" /\ jobs'[j].status # "queued") =>
                /\ jobs'[j].status = "running"
                /\ run_job[j].pc = "scheduled"
                /\ run_job'[j].pc = "gathering"]_vars

C5_Witness ==
    \E j \in JobIds :
        /\ jobs[j].status = "queued"
        /\ jobs[j].total_targets = 2
        /\ Cardinality(DOMAIN jobs[j].results) = 2
        /\ AllQueued(jobs[j])
        /\ run_job[j].pc = "scheduled"

\* the results of probed targets: those that are neither queued nor skipped
Probed(job) ==
    {e \in DOMAIN job.results :
        job.results[e].status \notin {"queued", "skipped"}}

GotResponse(r) == r.status_code # None

InSuccessRange(r) ==
    IF GotResponse(r)
    THEN r.status_code[1] >= 200 /\ r.status_code[1] <= 399
    ELSE FALSE

\* C6: a probed target is healthy iff it got a response with status 200..399
\* within 1000 ms, warning iff it got such a response after more than
\* 1000 ms, and critical iff the response status is outside 200..399 or the
\* call raised (no status code).
C6_Classification ==
    \A j \in JobIds : \A e \in Probed(jobs[j]) :
        LET r == jobs[j].results[e] IN
        /\ r.status \in {"healthy", "warning", "critical"}
        /\ r.latency_ms # None
        /\ r.status = "healthy" <=>
                (InSuccessRange(r) /\ r.latency_ms[1] <= 1000)
        /\ r.status = "warning" <=>
                (InSuccessRange(r) /\ r.latency_ms[1] > 1000)
        /\ r.status = "critical" <=> ~InSuccessRange(r)

C6_Witness ==
    \E j \in JobIds : \E e \in Probed(jobs[j]) :
        /\ jobs[j].results[e].status = "warning"
        /\ jobs[j].results[e].status_code = Some(399)
        /\ jobs[j].results[e].latency_ms = Some(1001)

\* C7: for a target with requires_input no client.request call is ever made,
\* and its ProbeResult changes only once, from queued to skipped.
C7_RequiresInputNeverCalled ==
    /\ [](\A j \in JobIds : \A i \in DOMAIN client_requests[j] :
            EndpointInfo[run_job[j].endpoints[i]].requires_input =>
                client_requests[j][i] = 0)
    /\ [][\A j \in JobIds : \A e \in DOMAIN jobs[j].results :
            (EndpointInfo[e].requires_input
                /\ jobs'[j].results[e] # jobs[j].results[e]) =>
                    /\ jobs[j].results[e].status = "queued"
                    /\ jobs'[j].results[e].status = "skipped"]_vars

C7_Witness ==
    \E j \in JobIds : \E i \in DOMAIN probe_task[j] :
        /\ EndpointInfo[run_job[j].endpoints[i]].requires_input
        /\ probe_task[j][i] = "done"
        /\ client_requests[j][i] = 0
        /\ jobs[j].results[run_job[j].endpoints[i]].status = "skipped"

\* C8: in a completed job no ProbeResult is queued: each is skipped, healthy,
\* warning or critical, and the skipped ones are exactly the targets with
\* requires_input.
C8_CompletedJobHasTerminalResults ==
    \A j \in JobIds :
        Completed(j) =>
            /\ \A e \in DOMAIN jobs[j].results :
                jobs[j].results[e].status
                    \in {"skipped", "healthy", "warning", "critical"}
            /\ {e \in DOMAIN jobs[j].results :
                    jobs[j].results[e].status = "skipped"}
               = {e \in Range(run_job[j].endpoints) :
                    EndpointInfo[e].requires_input}

C8_Witness ==
    \E j \in JobIds :
        /\ Completed(j)
        /\ jobs[j].completed = 2
        /\ Cardinality({e \in DOMAIN jobs[j].results :
                jobs[j].results[e].status = "skipped"}) = 1
        /\ Cardinality(DOMAIN jobs[j].results) = 2

\* synthetic requests in flight, over all jobs
InFlight ==
    Cardinality({p \in (1..MaxJobs) \X (1..MaxProbes) :
        /\ p[1] \in JobIds
        /\ p[2] \in DOMAIN probe_task[p[1]]
        /\ probe_task[p[1]][p[2]] = "inflight"})

Pending(j, i) ==
    IF j \in JobIds
    THEN IF i \in DOMAIN probe_task[j]
         THEN probe_task[j][i] = "pending"
         ELSE FALSE
    ELSE FALSE

\* some probe coroutine of job j has not got a slot yet
HasPending(j) == \E i \in 1..MaxProbes : Pending(j, i)

\* C9: the number of probe coroutines inside the semaphore with a request in
\* flight never exceeds the ceiling max(1, concurrency), the free slots being
\* the rest of it; a coroutine that finds no free slot stays pending, and the
\* pending coroutines of every job all get a slot eventually (a coroutine
\* that got its slot is never pending again).
C9_ConcurrencyCeiling ==
    /\ [](InFlight <= Max(1, concurrency))
    /\ [](InFlight + semaphore = Max(1, concurrency))
    /\ [][\A j \in 1..MaxJobs, i \in 1..MaxProbes :
            (~Pending(j, i) /\ IsJob(j) /\ run_job[j].pc # "scheduled")
                => ~Pending(j, i)']_vars
    /\ \A j \in 1..MaxJobs : HasPending(j) ~> ~HasPending(j)

C9_Witness ==
    /\ InFlight = Max(1, concurrency)
    /\ semaphore = 0
    /\ \E j \in 1..MaxJobs, i \in 1..MaxProbes :
            /\ Pending(j, i)
            /\ ~EndpointInfo[run_job[j].endpoints[i]].requires_input

CompletedInFull(j) ==
    IF j \in JobIds
    THEN /\ Completed(j)
         /\ jobs[j].completed = jobs[j].total_targets
         /\ jobs[j].completed = DoneTasks(j)
    ELSE FALSE

\* C10: a start_probe call changes nothing of the jobs that exist already
\* (record, _run_job task, probe coroutines) nor the semaphore they share;
\* every running job, whatever other jobs run beside it, reaches completed
\* with its own completed = total_targets.
C10_StartLeavesOtherJobsAlone ==
    /\ [][Started # {} =>
            /\ semaphore' = semaphore
            /\ \A j \in JobIds :
                /\ j \in JobIds'
                /\ jobs'[j] = jobs[j]
                /\ run_job'[j] = run_job[j]
                /\ probe_task'[j] = probe_task[j]]_vars
    /\ \A j \in 1..MaxJobs :
            HasStatus(j, "running") ~> CompletedInFull(j)

C10_Witness ==
    /\ JobIds = {1, 2}
    /\ jobs[1].status = "running"
    /\ jobs[2].status = "running"
    /\ run_job[1].endpoints = run_job[2].endpoints
    /\ \E i \in DOMAIN probe_task[1] : probe_task[1][i] = "inflight"
    /\ \E i \in DOMAIN probe_task[2] : probe_task[2][i] = "inflight"

\* the record_request calls made by the probe coroutine of target i of job j
CallsOf(j, i) == {metrics_calls[j][i][k] : k \in DOMAIN metrics_calls[j][i]}

\* C11: a record_request call under the failure status code always comes
\* from a probe whose call raised (its result holds no status code), never
\* from a probe that received a response.
C11_FailureCodeReserved ==
    \A j \in JobIds : \A i \in DOMAIN metrics_calls[j] :
        \A c \in CallsOf(j, i) :
            c.status_code = 599 =>
                jobs[j].results[Target(j, i)].status_code = None

\* C12: when the synthetic call raises, by timeout or otherwise, the result
\* becomes critical with an error text and no status code, the failure is
\* recorded under the failure status code and completed grows by one.
C12_TimeoutIsATransportFailure ==
    [][\A o \in ClassifyOutcomes :
        (o.kind \in {"timeout", "error"} /\ ProbeReturn(1, 1, o)) =>
            LET r == jobs'[1].results[Target(1, 1)] IN
            /\ r.status = "critical"
            /\ r.error # None
            /\ r.status_code = None
            /\ r.latency_ms = Some(o.duration_ms)
            /\ jobs'[1].completed = jobs[1].completed + 1
            /\ probe_task'[1][1] = "done"
            /\ Len(metrics_calls'[1][1]) = 1
            /\ metrics_calls'[1][1][1].status_code = 599]_vars

C12_Witness ==
    /\ jobs[1].completed = 1
    /\ jobs[1].results["GET /items"].status = "critical"
    /\ jobs[1].results["GET /items"].status_code = None
    /\ jobs[1].results["GET /items"].error = Some(20)
    /\ jobs[1].results["GET /items"].latency_ms = Some(10000)

\* C13: the error text of every critical result is at most 500 characters
\* long, for a non-success response and for a raised call alike.
C13_ErrorTextBounded ==
    \A j \in JobIds : \A e \in DOMAIN jobs[j].results :
        jobs[j].results[e].status = "critical" =>
            /\ jobs[j].results[e].error # None
            /\ jobs[j].results[e].error[1] <= 500

\* number of record_request calls made for job j
RecordCalls(j) ==
    LET RECURSIVE Sum(_)
        Sum(n) == IF n = 0 THEN 0 ELSE Len(metrics_calls[j][n]) + Sum(n - 1)
    IN Sum(Len(metrics_calls[j]))

\* the targets of job j that need no input
NonSkipped(j) ==
    {i \in DOMAIN run_job[j].endpoints :
        ~EndpointInfo[run_job[j].endpoints[i]].requires_input}

\* C14: a probe coroutine makes exactly one record_request call once its
\* synthetic call came back (whatever the outcome) and none before or without
\* one; the call carries the pulse-probe correlation id and the endpoint's
\* method and path; a completed job has as many calls as non-skipped targets.
C14_OneRecordPerProbe ==
    \A j \in JobIds :
        /\ \A i \in DOMAIN metrics_calls[j] :
            /\ Len(metrics_calls[j][i]) =
                    IF probe_task[j][i] = "done" THEN client_requests[j][i]
                    ELSE 0
            /\ client_requests[j][i] =
                    IF i \in NonSkipped(j) /\ probe_task[j][i] # "pending"
                    THEN 1 ELSE 0
            /\ \A c \in CallsOf(j, i) :
                /\ c.correlation_id = "pulse-probe"
                /\ c.method = EndpointInfo[Target(j, i)].method
                /\ c.endpoint = EndpointInfo[Target(j, i)].path
        /\ Completed(j) => RecordCalls(j) = Cardinality(NonSkipped(j))

C14_Witness ==
    \E j \in JobIds :
        /\ Completed(j)
        /\ jobs[j].total_targets = 2
        /\ Cardinality(NonSkipped(j)) = 1
        /\ RecordCalls(j) = 1
        /\ \E i \in NonSkipped(j) : \E c \in CallsOf(j, i) : c.status_code = 599

\* C15: wait_for_completion hands a job back only when that job is
\* completed (at once if it already is, after a wait otherwise); a parked
\* caller stops no job: while a job is unfinished the event loop always has
\* a step to take; a call changes nothing of the manager, and for an id that
\* is not in _jobs it raises KeyError.
C15_WaitReturnsCompletedJob ==
    /\ [](\A w \in 1..NumWaiters :
            /\ waiters[w].pc = "returned" =>
                (waiters[w].job # None /\ Completed(waiters[w].job[1]))
            /\ waiters[w].pc = "awaiting" =>
                (waiters[w].job # None /\ waiters[w].job[1] \in JobIds)
            /\ (waiters[w].pc = "awaiting"
                    /\ \E j \in JobIds : ~Completed(j)) => ENABLED Progress)
    /\ [][waiters' # waiters =>
            UNCHANGED <<concurrency, semaphore, jobs, last_job_id, run_job,
                        probe_task, client_requests, metrics_calls>>]_vars
    /\ [][\A w \in 1..NumWaiters, id \in 1..(MaxJobs + 1) :
            WaitCall(w, id) =>
                /\ id \notin JobIds <=> waiters'[w].pc = "KeyError"
                /\ (id \in JobIds /\ Completed(id))
                        <=> waiters'[w].pc = "returned"]_vars

C15_Witness ==
    \E w \in 1..NumWaiters, j \in JobIds :
        /\ waiters[w].pc = "returned"
        /\ waiters[w].job = Some(j)
        /\ Completed(j)
        /\ jobs[j].total_targets = 2
        /\ \E k \in JobIds : jobs[k].status = "running"

\* C16: last_job() is None before the first start_probe; a start_probe call
\* makes it the job just started, and nothing else changes which job it is,
\* whether jobs finish or not; get_job(id) keeps finding every job started.
C16_LastJobIsMostRecentStart ==
    /\ [](JobIds = {} <=> LastJob = None)
    /\ [][/\ \A j \in Started : LastJob' = Some(jobs'[j])
          /\ (Started = {} /\ LastJob # None) =>
                (LastJob' # None /\ LastJob'[1].job_id = LastJob[1].job_id)
          /\ \A j \in JobIds :
                (GetJob(j)' # None /\ GetJob(j)'[1].job_id = j)]_vars

C16_Witness ==
    /\ JobIds = {1, 2}
    /\ Completed(1)
    /\ jobs[2].status = "running"
    /\ LastJob = Some(jobs[2])
    /\ GetJob(1) = Some(jobs[1])

\* the cached hash is the hash of the paths the application describes now
HashIsCurrent == schema_hash = Some(Hash(schema.paths))

ListedPaths(list) == {list[n].path : n \in DOMAIN list}

\* A step of the registry's specification that leaves the description alone
\* is one of the registry's calls; its name is in returned.
CallStep == schema' = schema
AutoProbeStep == CallStep /\ returned'.call = "auto_probe_targets"

\* C17: a call of the registry that finds the cached hash equal to the hash
\* of the description derives nothing and leaves list and hash as they are;
\* any other call derives once and caches the description's hash; so while
\* the paths do not change the list is derived once, by the first call.
C17_UnchangedDescriptionDerivedOnce ==
    /\ [][CallStep =>
            IF HashIsCurrent
            THEN /\ ~returned'.derived
                 /\ UNCHANGED <<reg_endpoints, schema_hash, derivations>>
            ELSE /\ returned'.derived
                 /\ derivations' = derivations + 1
                 /\ HashIsCurrent']_vars
    /\ [][(HashIsCurrent /\ schema'.paths = schema.paths) =>
            UNCHANGED <<reg_endpoints, schema_hash, derivations>>]_vars
    /\ [](changes = 0 => derivations <= 1)

C17_Witness ==
    /\ changes = 0
    /\ derivations = 1
    /\ returned.call = "refresh"
    /\ ~returned.derived
    /\ HashIsCurrent

\* C18: after every call of the registry the cached list is the derivation
\* of the paths the application describes at that call, however the
\* description was changed before it (an edited summary, a removed path).
C18_CacheIsNeverStale ==
    [][CallStep =>
        /\ reg_endpoints' = Derive(schema.paths, exclude_prefixes)
        /\ \A n \in DOMAIN reg_endpoints' :
            LET e == reg_endpoints'[n]
                key == CHOOSE k \in DOMAIN schema.paths[e.path] :
                            Upper(k) = e.method
                operation == schema.paths[e.path][key]
            IN  e.summary = Or(Opt(operation, "summary"),
                               Opt(operation, "operationId"))]_vars

C18_Witness ==
    /\ changes > 0
    /\ derivations = 2
    /\ returned.call = "list_endpoints"
    /\ returned.derived
    /\ schema.paths[ItemsPath] = [get |-> OpListAll]
    /\ \E n \in DOMAIN reg_endpoints :
        /\ reg_endpoints[n].path = ItemsPath
        /\ reg_endpoints[n].summary = Some("List all")

\* C19: the registry excludes the built-in prefix /health/pulse and, next
\* to it, the caller's prefix when one was given; no cached descriptor has a
\* path under one of them, and after a call every described path under
\* neither has its descriptor.
C19_ManagementPathsExcluded ==
    /\ [](/\ exclude_prefixes \in
                {{<<"/", "health", "/", "pulse">>},
                 {<<"/", "health", "/", "pulse">>, <<"/", "dashboard">>}}
          /\ \A path \in ListedPaths(reg_endpoints) :
                \A prefix \in exclude_prefixes : ~StartsWith(path, prefix))
    /\ [][CallStep =>
            \A path \in DOMAIN schema.paths :
                path \in ListedPaths(reg_endpoints')
                    <=> \A prefix \in exclude_prefixes :
                            ~StartsWith(path, prefix)]_vars

C19_Witness ==
    /\ Cardinality(exclude_prefixes) = 2
    /\ {PulsePath, DashboardPath, ItemsPath} \subseteq DOMAIN schema.paths
    /\ HashIsCurrent
    /\ ItemsPath \in ListedPaths(reg_endpoints)
    /\ PulsePath \notin ListedPaths(reg_endpoints)
    /\ DashboardPath \notin ListedPaths(reg_endpoints)

\* C20: auto_probe_targets returns the descriptors of the list that need no
\* input, each once and in the order of the list, and no other.
C20_AutoTargetsAreTheInputFreeOnes ==
    [][AutoProbeStep =>
        LET auto == returned'.value
            list == reg_endpoints'
            Pos(e) == CHOOSE n \in DOMAIN list : list[n] = e
        IN  /\ \A k \in DOMAIN auto : \E n \in DOMAIN list : list[n] = auto[k]
            /\ \A n \in DOMAIN list :
                (~list[n].requires_input)
                    <=> \E k \in DOMAIN auto : auto[k] = list[n]
            /\ \A k1, k2 \in DOMAIN auto :
                k1 < k2 => Pos(auto[k1]) < Pos(auto[k2])]_vars

C20_Witness ==
    /\ returned.call = "auto_probe_targets"
    /\ Len(returned.value) >= 2
    /\ Len(reg_endpoints) > Len(returned.value)
    /\ \E n \in DOMAIN reg_endpoints :
        /\ reg_endpoints[n].has_request_body
        /\ ~reg_endpoints[n].has_path_params
    /\ \E n \in DOMAIN reg_endpoints : reg_endpoints[n].has_path_params

\* the place of a descriptor in the order of (path, method)
PathRank(e) == CHOOSE n \in DOMAIN PathOrder : PathOrder[n] = e.path
MethodRank(e) == CHOOSE n \in DOMAIN MethodOrder : MethodOrder[n] = e.method

\* C21: the list that list_endpoints returns is in ascending order of
\* (path, method) and holds the endpoints collected from the description,
\* in whatever order the description's dicts were read.
C21_ListIsSorted ==
    (returned.call = "list_endpoints") =>
        LET list == returned.value IN
        /\ \A i, j \in DOMAIN list :
            i < j =>
                \/ PathRank(list[i]) < PathRank(list[j])
                \/ /\ PathRank(list[i]) = PathRank(list[j])
                   /\ MethodRank(list[i]) <= MethodRank(list[j])
        /\ \A path \in DOMAIN schema.paths \ {PulsePath} :
            \E n \in DOMAIN list :
                /\ list[n].path = path
                /\ list[n].method = "GET"
                /\ list[n].summary
                    \in {Or(Opt(schema.paths[path][key], "summary"),
                            Opt(schema.paths[path][key], "operationId")) :
                            key \in DOMAIN schema.paths[path] \ {"parameters"}}

C21_Witness ==
    /\ returned.call = "list_endpoints"
    /\ returned.derived
    /\ schema.path_order[1] = ItemPath
    /\ schema.path_order[4] = DashboardPath
    /\ schema.key_order[1] = "trace"
    /\ Len(returned.value) >= 5
    /\ \E n \in DOMAIN returned.value :
        /\ n + 1 \in DOMAIN returned.value
        /\ returned.value[n].id = returned.value[n + 1].id
        /\ returned.value[n].summary = Some("List all")
        /\ returned.value[n + 1].summary = Some("List")

\* the operations of the description that are well formed: a dict under a
\* supported method of a dict path item outside the management prefixes,
\* with dicts for parameters
WellFormedOperations ==
    {<<Upper(key), path>> :
        path \in {p \in DOMAIN schema.paths :
                    /\ IsDict(schema.paths[p])
                    /\ \A prefix \in exclude_prefixes : ~StartsWith(p, prefix)},
        key \in {"get", "post", "put"}} \cap
    {id \in {"GET", "POST", "PUT"} \X DOMAIN schema.paths :
        LET operations == schema.paths[id[2]]
            key == CHOOSE k \in {"get", "post", "put"} : Upper(k) = id[1]
        IN  /\ IsDict(operations)
            /\ key \in DOMAIN operations
            /\ IsDict(operations[key])
            /\ \A n \in DOMAIN Get(operations[key], "parameters", <<>>) :
                    IsDict(operations[key].parameters[n])
            /\ \A n \in DOMAIN Get(operations, "parameters", <<>>) :
                    IsDict(operations.parameters[n])}

\* C22: a call of the registry on a description with malformed nodes does
\* not raise, and afterwards the list has a descriptor for every well-formed
\* operation of the description.
C22_MalformedEntriesSkipped ==
    [][CallStep =>
        /\ ~returned'.raised
        /\ \A id \in WellFormedOperations :
            \E n \in DOMAIN reg_endpoints' : reg_endpoints'[n].id = id]_vars

\* the descriptions the application can come to hold while threads race
RaceDescriptions ==
    {[p \in Paths |-> IF p = ItemsPath THEN item ELSE BaseSchema.paths[p]] :
        item \in RaceItemChoices}

\* cached list and cached hash come from one description
CacheConsistent ==
    IF schema_hash = None
    THEN reg_endpoints = <<>>
    ELSE \E paths \in RaceDescriptions :
            /\ schema_hash = Some(Hash(paths))
            /\ reg_endpoints = Derive(paths, exclude_prefixes)

\* C23: with threads inside list_endpoints() while the description changes,
\* every list handed to a caller is the complete derivation of some
\* description, and whenever no thread is between the two stores of
\* refresh() the cached hash is the hash of the description from which the
\* cached list was derived.
C23_CacheReplacedAtomically ==
    /\ \A t \in 1..NumCallers :
        callers[t].result # None =>
            \/ callers[t].result[1] = <<>>
            \/ \E paths \in RaceDescriptions :
                    callers[t].result[1] = Derive(paths, exclude_prefixes)
    /\ (\A t \in 1..NumCallers : callers[t].pc # "list_stored")
            => CacheConsistent

\* C24: the SLA verdicts of GET /health/pulse follow from what the
\* aggregator holds when it is asked: the latency verdict is "no data" (None)
\* without a retained sample and otherwise says whether p95 < 200; the
\* error-rate verdict says whether errorRate < 5 and is met when nothing was
\* recorded; the overall verdict is undefined without a latency verdict and
\* otherwise the conjunction of the two.  A fresh aggregator gives no data,
\* met, undefined.
Retained == Totals(metrics, DOMAIN metrics)

C24_SlaVerdicts ==
    [][response' # response =>
        LET verdicts == response'[1].sla_compliance
            latency == Percentile95(Retained.samples) < 200
            errors == \/ Retained.requests = 0
                      \/ 100 * Retained.errors < 5 * Retained.requests
        IN  /\ verdicts.latency_sla_met =
                    IF Retained.samples = <<>> THEN None ELSE Some(latency)
            /\ verdicts.error_rate_sla_met = errors
            /\ verdicts.overall_sla_met =
                    IF Retained.samples = <<>>
                    THEN None
                    ELSE Some(latency /\ errors)
            /\ recorded = <<>> =>
                    verdicts = [latency_sla_met |-> None,
                                error_rate_sla_met |-> TRUE,
                                overall_sla_met |-> None]]_vars

\* asked with one request in twenty failed and every sample fast: the error
\* rate is exactly 5, so that verdict and the overall one are FALSE
C24_Witness ==
    /\ response # None
    /\ "error_rate" \in DOMAIN response[1].summary
    /\ response[1].summary["error_rate"].num
            = 5 * response[1].summary["error_rate"].den
    /\ response[1].sla_compliance =
            [latency_sla_met |-> Some(TRUE), error_rate_sla_met |-> FALSE,
             overall_sla_met |-> Some(FALSE)]

\* the calls of record_request made for a key, in their order
CallsFor(key) ==
    LET ForKey(o) == <<o.method, o.endpoint>> = key
    IN  SelectSeq(recorded, ForKey)

\* C29: after every call of record, each key's totalRequests is its
\* successCount plus its errorCount, successCount being the number of its
\* calls with statusCode < 400 and errorCount the number of the others.
C29_CountsAddUp ==
    \A key \in DOMAIN metrics :
        LET calls == CallsFor(key)
            good == {i \in DOMAIN calls : calls[i].status_code < 400}
        IN  /\ metrics[key].total_requests
                    = metrics[key].success_count + metrics[key].error_count
            /\ metrics[key].total_requests = Len(calls)
            /\ metrics[key].success_count = Cardinality(good)
            /\ metrics[key].error_count = Len(calls) - Cardinality(good)

\* a key recorded with the statuses 399 and 400, one on each side of the line
C29_Witness ==
    \E key \in DOMAIN metrics :
        /\ metrics[key].success_count > 0
        /\ metrics[key].error_count > 0
        /\ \E i, j \in DOMAIN CallsFor(key) :
                /\ CallsFor(key)[i].status_code = 399
                /\ CallsFor(key)[j].status_code = 400

\* C30: a key's latency window never holds more than WindowCapacity samples
\* and is always the durations of the key's latest min(n, WindowCapacity)
\* calls, oldest first: a call at capacity evicts the oldest sample.
C30_WindowIsLatestSamples ==
    \A key \in DOMAIN metrics :
        LET calls == CallsFor(key)
            kept == IF Len(calls) <= WindowCapacity
                    THEN Len(calls)
                    ELSE WindowCapacity
        IN  /\ Len(metrics[key].window) <= WindowCapacity
            /\ metrics[key].window =
                    [n \in 1..kept |->
                        calls[Len(calls) - kept + n].duration_ms]

\* a key with more calls than the window holds, the evicted duration unlike
\* the retained ones
C30_Witness ==
    \E key \in DOMAIN metrics :
        /\ Len(CallsFor(key)) > WindowCapacity
        /\ Len(metrics[key].window) = WindowCapacity
        /\ CallsFor(key)[Len(CallsFor(key)) - WindowCapacity].duration_ms
                # metrics[key].window[1]
        /\ metrics[key].window[1] # metrics[key].window[WindowCapacity]

\* the ids of the endpoints the application's description has right now
KnownIds == {e.id : e \in Range(Derive(schema.paths, exclude_prefixes))}

\* C25: a probe trigger whose payload names at least one id the registry
\* does not know is answered not-found with exactly the unknown ids and
\* starts nothing: the jobs, their tasks and the last job stay as they were.
\* A trigger naming known ids only is accepted.
C25_UnknownIdStartsNoJob ==
    [][response' # response =>
        LET call == response'[1]
            unknown == {n \in DOMAIN call.payload :
                            call.payload[n] \notin KnownIds}
        IN  IF unknown # {}
            THEN /\ call.status_code = 404
                 /\ Range(call.missing_endpoints)
                        = {call.payload[n] : n \in unknown}
                 /\ jobs' = jobs
                 /\ last_job_id' = last_job_id
                 /\ run_job' = run_job
            ELSE call.status_code = 200]_vars

\* refused while an earlier job exists: the payload names GET /items/{id},
\* which is there, and GET /items, which the application no longer has
C25_Witness ==
    /\ response # None
    /\ response[1].status_code = 404
    /\ response[1].payload = << <<"GET", ItemPath>>, <<"GET", ItemsPath>> >>
    /\ response[1].missing_endpoints = << <<"GET", ItemsPath>> >>
    /\ last_job_id # None
    /\ \E j \in JobIds : jobs[j].status = "running"

\* the segments of a path: the text before, between and after its slashes
Split(path) ==
    LET cuts == {0} \cup {i \in DOMAIN path : path[i] = "/"}
                    \cup {Len(path) + 1}
        Cut(n) == CHOOSE c \in cuts : Cardinality({d \in cuts : d < c}) = n
    IN  [n \in 1..(Cardinality(cuts) - 1) |->
            SubSeq(path, Cut(n - 1) + 1, Cut(n) - 1)]

IsInteger(segment) ==
    segment # <<>> /\ \A k \in DOMAIN segment : segment[k] \in DecimalDigits

IsUuid(segment) == Len(segment) = 36 /\ UuidAt(<<"/">> \o segment, 1)

SameButIntegers(p, q) ==
    /\ Len(Split(p)) = Len(Split(q))
    /\ \A n \in DOMAIN Split(p) :
            \/ Split(p)[n] = Split(q)[n]
            \/ IsInteger(Split(p)[n]) /\ IsInteger(Split(q)[n])

HttpRequests == {r \in DOMAIN requests : requests[r].scope.type = "http"}

\* C26: normalizing a normalized path changes nothing, and two paths that
\* differ only in the value of an integer segment get the same key.
C26_NormalizeIdempotent ==
    /\ \A r \in HttpRequests :
            NormalizePath(requests[r].endpoint_path)
                = requests[r].endpoint_path
    /\ \A r, t \in HttpRequests :
            SameButIntegers(requests[r].scope.path, requests[t].scope.path)
                => requests[r].endpoint_path = requests[t].endpoint_path

\* two requests whose paths differ in an integer segment, under one key
C26_Witness ==
    \E r, t \in HttpRequests :
        /\ requests[r].scope.path # requests[t].scope.path
        /\ SameButIntegers(requests[r].scope.path, requests[t].scope.path)
        /\ requests[r].endpoint_path = requests[t].endpoint_path
        /\ requests[r].endpoint_path # requests[r].scope.path

\* a path with the segments that are a whole UUID or a whole integer replaced
\* by the placeholder and every other segment kept
RECURSIVE Join(_)
Join(segments) ==
    IF Len(segments) = 1
    THEN segments[1]
    ELSE segments[1] \o <<"/">> \o Join(Tail(segments))

WholeSegmentsReplaced(path) ==
    Join([n \in DOMAIN Split(path) |->
            IF IsUuid(Split(path)[n]) \/ IsInteger(Split(path)[n])
            THEN <<"{", "i", "d", "}">>
            ELSE Split(path)[n]])

\* C27: the key of a request is its path with exactly the segments replaced
\* that are as a whole a canonical UUID or a run of decimal digits; a segment
\* that only starts with digits or with a UUID stays as it is.
C27_OnlyWholeSegmentsReplaced ==
    \A r \in HttpRequests :
        requests[r].endpoint_path = WholeSegmentsReplaced(requests[r].scope.path)

\* the requests whose await of the application ends in this step
Finishing ==
    {r \in DOMAIN requests : requests[r].pc = "app" /\ requests'[r].pc = "done"}

\* C28: record is called exactly once for a tracked request, in the step in
\* which the request finishes, and in no other step; when the application
\* raised, the status recorded is 500 and the caller still gets the
\* exception.
C28_RecordedOncePerRequest ==
    [][/\ \A r \in Finishing :
            /\ requests[r].track_metrics =>
                /\ Len(recorded') = Len(recorded) + 1
                /\ recorded'[Len(recorded')].endpoint
                        = requests[r].endpoint_path
                /\ recorded'[Len(recorded')].correlation_id
                        = requests[r].correlation_id
                /\ requests'[r].outcome # Some("returned")
                        => recorded'[Len(recorded')].status_code = 500
            /\ ~requests[r].track_metrics => recorded' = recorded
            /\ requests'[r].outcome # None
       /\ Finishing = {} => recorded' = recorded]_vars

\* C31: the p95 of the summary is the sample at index ceil(0.95 * n) - 1 of
\* the n retained samples sorted ascending, that is the sample v with fewer
\* than 0.95 * n samples below it and at least 0.95 * n samples not above it
\* (100 for 99 samples of 100 and one of 1000); without a sample there is
\* no p95.
C31_PercentileIndex ==
    [][response' # response =>
        LET summary == response'[1].summary
            samples == Retained.samples
            n == Len(samples)
        IN  IF n = 0
            THEN "p95_response_time" \notin DOMAIN summary
            ELSE LET v == summary["p95_response_time"]
                     below == {i \in 1..n : samples[i] < v}
                     upto == {i \in 1..n : samples[i] <= v}
                 IN  /\ v \in Range(samples)
                     /\ 20 * Cardinality(below) < 19 * n
                     /\ 20 * Cardinality(upto) >= 19 * n]_vars

\* 99 samples of 100 and one of 1000 retained: the p95 handed out is 100
C31_Witness ==
    /\ response # None
    /\ Len(Retained.samples) = 100
    /\ Cardinality({i \in 1..100 : Retained.samples[i] = 1000}) = 1
    /\ response[1].summary["p95_response_time"] = 100

\* a job started with an empty list of endpoints
EmptyJob(j) == IF j \in JobIds THEN jobs[j].total_targets = 0 ELSE FALSE

\* C32: a job started with no endpoints has an empty result mapping and
\* completed = total_targets = 0 throughout, causes no request of the client
\* and no call of record_request, and reaches status completed with its
\* future resolved, which is what releases the callers waiting for it.
C32_EmptyJobCompletes ==
    /\ [](\A j \in JobIds :
            jobs[j].total_targets = 0 =>
                /\ DOMAIN jobs[j].results = {}
                /\ jobs[j].completed = 0
                /\ run_job[j].endpoints = <<>>
                /\ DOMAIN client_requests[j] = {}
                /\ DOMAIN metrics_calls[j] = {})
    /\ \A j \in 1..MaxJobs :
            EmptyJob(j) ~> (EmptyJob(j) /\ HasStatus(j, "completed")
                            /\ jobs[j].future = "done")

\* an empty job completed while a job with targets is still running
C32_Witness ==
    \E j, k \in JobIds :
        /\ jobs[j].total_targets = 0
        /\ jobs[j].status = "completed"
        /\ jobs[j].future = "done"
        /\ jobs[k].total_targets > 0
        /\ jobs[k].status = "running"

RequiredPathParam(param) ==
    /\ "in" \in DOMAIN param
    /\ param["in"] = "path"
    /\ "required" \in DOMAIN param
    /\ param["required"] = TRUE

\* the parameter list under the key "parameters" of a dict, if there is one
ParametersOf(dict) ==
    IF "parameters" \in DOMAIN dict THEN Range(dict["parameters"]) ELSE {}

Descriptors(list, path, method) ==
    {n \in DOMAIN list : list[n].path = path /\ list[n].method = method}

\* C34: after a call of the registry, each operation of an included path
\* under a supported method has one descriptor, whose has_path_params says
\* whether a parameter of the path's shared list or of the operation's own
\* list is in: path and required; with such a parameter in the shared list
\* every descriptor of the path requires input; a key that is no supported
\* method has no descriptor.
C34_PathParamsFromBothLists ==
    [][CallStep =>
        \A path \in ListedPaths(reg_endpoints') \cup
                    {p \in DOMAIN schema.paths :
                        \A prefix \in exclude_prefixes :
                            ~StartsWith(p, prefix)} :
            /\ path \in DOMAIN schema.paths
            /\ \A key \in DOMAIN schema.paths[path] \ {"parameters"} :
                LET found == Descriptors(reg_endpoints', path, Upper(key))
                    params == ParametersOf(schema.paths[path])
                                \cup ParametersOf(schema.paths[path][key])
                IN  IF Upper(key) \in ALLOWED_METHODS
                    THEN /\ Cardinality(found) = 1
                         /\ \A n \in found :
                                reg_endpoints'[n].has_path_params
                                    <=> \E param \in params :
                                            RequiredPathParam(param)
                    ELSE found = {}
            /\ (\E param \in ParametersOf(schema.paths[path]) :
                    RequiredPathParam(param))
                => \A n \in DOMAIN reg_endpoints' :
                        reg_endpoints'[n].path = path
                            => reg_endpoints'[n].requires_input]_vars

\* /items/{id} with its required path parameter in the shared list only and
\* an entry under "trace", next to /items whose PUT has an optional one
C34_Witness ==
    /\ HashIsCurrent
    /\ "trace" \in DOMAIN schema.paths[ItemPath]
    /\ PathParam \in ParametersOf(schema.paths[ItemPath])
    /\ PathParam \notin ParametersOf(schema.paths[ItemPath]["get"])
    /\ \E n \in Descriptors(reg_endpoints, ItemPath, "GET") :
            reg_endpoints[n].has_path_params
    /\ Descriptors(reg_endpoints, ItemPath, "TRACE") = {}
    /\ OptionalPathParam \in ParametersOf(schema.paths[ItemsPath]["put"])
    /\ \E n \in Descriptors(reg_endpoints, ItemsPath, "PUT") :
            ~reg_endpoints[n].has_path_params

\* C35: the result mapping of every job has exactly total_targets entries,
\* one for each target handed to start_probe, also when the list of targets
\* names an endpoint id more than once.
C35_OneResultPerTarget ==
    \A j \in JobIds :
        Cardinality(DOMAIN jobs[j].results) = jobs[j].total_targets

\* C36: a call of the registry whose derivation raises leaves the cached list
\* and the cached hash as they were before the call, and the hash gate stays
\* open: the next call on the same description derives again.
C36_FailedRefreshKeepsCache ==
    [][(CallStep /\ returned'.raised) =>
        /\ reg_endpoints' = reg_endpoints
        /\ schema_hash' = schema_hash
        /\ derivations' = derivations
        /\ Some(Hash(schema'.paths)) # schema_hash']_vars

\* a call has raised on a cache filled by an earlier derivation
C36_Witness ==
    /\ returned # None
    /\ returned.raised
    /\ reg_endpoints # <<>>
    /\ schema_hash # None
    /\ Some(Hash(schema.paths)) # schema_hash
    /\ DeriveRaises(schema.paths, exclude_prefixes)

\* the ceiling of the manager: the configured value, a value below 1 being 1
Ceiling == IF concurrency < 1 THEN 1 ELSE concurrency

\* C37: the ceiling is the manager's, shared by its jobs: the synthetic
\* requests in flight, counted over all jobs, never exceed it, the one
\* semaphore holding what is left of it; a configured ceiling below 1 counts
\* as 1, so that a pending probe finds a free slot whenever no request is in
\* flight.
C37_CeilingIsTheManagers ==
    /\ InFlight <= Ceiling
    /\ semaphore = Ceiling - InFlight
    /\ \A j \in 1..MaxJobs :
        (HasPending(j) /\ InFlight = 0) => CanAcquire(semaphore)

\* configured ceiling 0: the request of one job is in flight and holds the
\* only slot while a probe of another job waits for it
C37_Witness ==
    /\ concurrency = 0
    /\ semaphore = 0
    /\ \E j, k \in JobIds :
        /\ j # k
        /\ \E i \in DOMAIN probe_task[j] : probe_task[j][i] = "inflight"
        /\ \E i \in DOMAIN probe_task[k] :
            /\ probe_task[k][i] = "pending"
            /\ ~ShouldSkip(Target(k, i))

====
